---- MODULE Spec2Model ----
(***************************************************************************)
(* The ACI provider of azure-aci (pkg/provider/aci.go).                    *)
(*  - Spec: translation of a pod into a container-group request by         *)
(*    CreatePod, and the call to the backend's CreateContainerGroup;       *)
(*  - ListSpec: GetPods and ListActivePods;                                *)
(*  - ExecSpec: RunInContainer and its stdin goroutine;                    *)
(*  - TrackSpec: the status tracker's loop, with DeletePod and a changing  *)
(*    backend;                                                             *)
(*  - CancelSpec: the tracker's loop under cancellation, with GetPod.      *)
(*  - StartSpec: NewACIProvider;                                           *)
(*  - DiagSpec: concurrent CreatePod calls and the shared diagnostics;     *)
(*  - NameSpec: container group names, create and delete;                  *)
(*  - CacheSpec: the cached pod stats getter (provider/metrics/cache.go).  *)
(*                                                                         *)
(* Conventions                                                             *)
(*  - a Go pointer / nil-able map or slice is an option: None is nil,      *)
(*    Some(x) is a value;                                                  *)
(*  - strings the code compares with strings.EqualFold are tuples of       *)
(*    one-character strings, every other string is a TLA+ string;          *)
(*  - CPU is in millicores (0.01 core = 10), memory in units of 0.1 GB,    *)
(*    so the float64 values the code computes are exact integers here.     *)
(***************************************************************************)
EXTENDS Integers, Sequences, FiniteSets, TLC

VARIABLES
    p,            \* the ACIProvider: the fields CreatePod reads and writes
    pod,          \* the pod of the CreatePod call that has just run, if any
    err,          \* the error that call returns
    submitted,    \* the request that call gave CreateContainerGroup, if any
    createCalls   \* number of CreateContainerGroup calls the backend has seen

VARIABLES
    listCall,        \* the listing call that has just run: "", "GetPods", "ListActivePods"
    cgs,             \* what GetContainerGroupListResult gave that call
    pods,            \* the pods GetPods returned
    podsIdentifiers, \* the identifiers ListActivePods returned
    listErr          \* the error the listing call returned

VARIABLES
    runPc,     \* where RunInContainer is: "", "select", "NextReader", "Copy", "return", "returned"
    inPc,      \* where its stdin goroutine is: "", "select", "Read", "WriteMessage", "done"
    ctxDone,   \* the context of the call is cancelled
    conn,      \* the websocket connection c: "nil", "open", "failed" (the peer is gone), "closed"
    sent,      \* the messages written to the connection, in order
    incoming,  \* a message from the peer waits on the connection
    stdin,     \* attach.Stdin(): "nil", "idle", "data", "EOF"
    out,       \* attach.Stdout(): "nil", "open", "closed"
    runErr     \* the error RunInContainer returned

VARIABLES
    tracker,      \* p.tracker: None until NotifyPods has run
    trackPc,      \* where the tracker's loop is: "", "idle", "next", "fetch", "stopped"
    queue,        \* the identifiers the running cycle has still to poll
    entry,        \* per identifier: "Unknown", "Tracked", "untracked"
    fingerprint,  \* per identifier: the last status the tracker knows, if any
    cycle,        \* number of poll cycles started
    calls,        \* per identifier: callbacks made in the running cycle
    inflight,     \* per identifier: status fetches of the tracker in flight
    polled,       \* the last fetch the tracker has dealt with
    snapshot,     \* per identifier: the group of the last fetch that gave a status
    notified,     \* per identifier: the callbacks made, and the last status given
    local,        \* per identifier: the pod status the orchestrator holds, if any
    backend,      \* per identifier: the container group the backend holds, if any
    deleted,      \* the DeletePod call that has just run
    getPodPc,     \* the identifier a GetPod call in flight asks for, if any
    gotPod        \* what the last GetPod call returned

VARIABLES
    started    \* the NewACIProvider call that has run, if any: its inputs and what it returned

VARIABLES
    creating   \* per concurrent CreatePod call: where it is, its pod, the diagnostics it sent

VARIABLES
    groups,    \* the backend's container groups: group name -> the identifier it was created for
    removed    \* the delete that has just run: its identifier and the owner of the group it removed

VARIABLES
    cache,       \* cacheGetter.cache: its default expiration and its items by key
    now,         \* time.Now(), in seconds
    statsCall    \* the getPodStats call that has just run

createVars == <<pod, err, submitted, createCalls>>
listVars == <<listCall, cgs, pods, podsIdentifiers, listErr>>
execVars == <<runPc, inPc, ctxDone, conn, sent, incoming, stdin, out, runErr>>
trackVars == <<tracker, trackPc, queue, entry, fingerprint, cycle, calls, inflight, polled, snapshot,
               notified, local, backend, deleted, getPodPc, gotPod>>
startVars == <<started>>
diagVars == <<creating>>
nameVars == <<groups, removed>>
cacheVars == <<cache, now, statsCall>>
\* the state of the models of NewACIProvider, of concurrent CreatePod calls, of
\* the group names and of the cached stats getter
otherVars == <<startVars, diagVars, nameVars, cacheVars>>
vars == <<p, createVars, listVars, execVars, trackVars, otherVars>>

----------------------------------------------------------------------------
(* Options, errors, sequences *)

None == <<>>
Some(x) == <<x>>
IsSome(o) == o # None
Get(o) == o[1]
\* ranging over, or taking len of, a nil slice is ranging over an empty one
SliceOf(o) == IF o = None THEN <<>> ELSE o[1]

NoErr == [kind |-> "nil", msg |-> ""]
InvalidInput(m) == [kind |-> "InvalidInput", msg |-> m]
Errorf(m) == [kind |-> "error", msg |-> m]

Range(s) == {s[i] : i \in DOMAIN s}

\* the pods the orchestrator can name, in the order the tracker polls them
Identifiers == <<"pod-1", "pod-2">>
Ids == {Identifiers[i] : i \in DOMAIN Identifiers}

\* NotifyPods has not been called, and nothing is known of any pod
NoTracking ==
    /\ tracker = None
    /\ trackPc = ""
    /\ queue = <<>>
    /\ entry = [id \in Ids |-> "Unknown"]
    /\ fingerprint = [id \in Ids |-> None]
    /\ cycle = 0
    /\ calls = [id \in Ids |-> 0]
    /\ inflight = [id \in Ids |-> 0]
    /\ polled = None
    /\ snapshot = [id \in Ids |-> None]
    /\ notified = [id \in Ids |-> [count |-> 0, status |-> None]]
    /\ local = [id \in Ids |-> None]
    /\ backend = [id \in Ids |-> None]
    /\ deleted = None
    /\ getPodPc = None
    /\ gotPod = None

\* RunInContainer has not been called
NoExec ==
    /\ runPc = ""
    /\ inPc = ""
    /\ ctxDone = FALSE
    /\ conn = "nil"
    /\ sent = <<>>
    /\ incoming = FALSE
    /\ stdin = "nil"
    /\ out = "nil"
    /\ runErr = NoErr

\* NewACIProvider is not looked at, no concurrent CreatePod call is under way,
\* the backend holds no group and the stats cache is not in use
Calls == {1, 2}
NoStartup == started = None
NoCreating == creating = [k \in Calls |-> [pc |-> "", pod |-> None, sent |-> None]]
NoGroups == groups = <<>> /\ removed = None
NoCache == cache = <<>> /\ now = 0 /\ statsCall = None
NoOthers == NoStartup /\ NoCreating /\ NoGroups /\ NoCache

\* no listing call has run
NoListing ==
    /\ listCall = ""
    /\ cgs = None
    /\ pods = None
    /\ podsIdentifiers = None
    /\ listErr = NoErr
MinOf(S) == CHOOSE x \in S : \A y \in S : x <= y
MapSeq(s, F(_)) == [i \in DOMAIN s |-> F(s[i])]

RECURSIVE Flatten(_)
Flatten(ss) == IF ss = <<>> THEN <<>> ELSE Head(ss) \o Flatten(Tail(ss))

----------------------------------------------------------------------------
(* strings.EqualFold, on tuples of one-character strings (ASCII letters)   *)

UpperToLower ==
    ("A" :> "a") @@ ("B" :> "b") @@ ("C" :> "c") @@ ("D" :> "d") @@
    ("E" :> "e") @@ ("F" :> "f") @@ ("G" :> "g") @@ ("H" :> "h") @@
    ("I" :> "i") @@ ("J" :> "j") @@ ("K" :> "k") @@ ("L" :> "l") @@
    ("M" :> "m") @@ ("N" :> "n") @@ ("O" :> "o") @@ ("P" :> "p") @@
    ("Q" :> "q") @@ ("R" :> "r") @@ ("S" :> "s") @@ ("T" :> "t") @@
    ("U" :> "u") @@ ("V" :> "v") @@ ("W" :> "w") @@ ("X" :> "x") @@
    ("Y" :> "y") @@ ("Z" :> "z")

FoldChar(c) == IF c \in DOMAIN UpperToLower THEN UpperToLower[c] ELSE c

EqualFold(s, t) ==
    /\ Len(s) = Len(t)
    /\ \A i \in 1..Len(s) : FoldChar(s[i]) = FoldChar(t[i])

----------------------------------------------------------------------------
(* Constants of aci.go *)

\* "/var/run/secrets/kubernetes.io/serviceaccount"
serviceAccountSecretMountPath ==
    <<"/","v","a","r","/","r","u","n","/","s","e","c","r","e","t","s","/",
      "k","u","b","e","r","n","e","t","e","s",".","i","o","/",
      "s","e","r","v","i","c","e","a","c","c","o","u","n","t">>

virtualKubeletDNSNameLabel == "virtualkubelet.io/dnsnamelabel"
gpuResourceName == "nvidia.com/gpu"
gpuTypeAnnotation == "virtual-kubelet.io/gpu-type"
LogAnalyticsLogTypeContainerInsights == "ContainerInsights"
LogAnalyticsMetadataKeyPodUUID == "pod-uuid"

\* the literal "Windows" of filterWindowsServiceAccountSecretVolume
WindowsLiteral == <<"W","i","n","d","o","w","s">>

\* the defaults of getContainers: 1.00 core and 1.50 GB
DefaultCPURequest == 1000
DefaultMemoryRequest == 15
\* the floors of getContainers: 0.01 core and 0.10 GB
MinCPURequest == 10
MinMemoryRequest == 1
\* bytes in 0.1 GB, the divisor 100000000.00 of getContainers
BytesPerTenthGB == 100000000

----------------------------------------------------------------------------
(* getProbe *)

\* the loop over the declared ports: the first port of that name, else 0
namedPortValue(portName, ports) ==
    LET hits == {i \in DOMAIN ports : ports[i].name = portName}
    IN  IF hits = {} THEN 0 ELSE ports[MinOf(hits)].containerPort

\* getProbe without the check that the named port was found
getProbeNoPortCheck(probe, ports) ==
    IF IsSome(probe.exec) /\ IsSome(probe.httpGet)
    THEN [err |-> Errorf("probe may not specify more than one of exec and httpGet"),
          probe |-> None]
    ELSE IF probe.exec = None /\ probe.httpGet = None
    THEN [err |-> Errorf("probe must specify one of exec and httpGet"),
          probe |-> None]
    ELSE
      LET exec == IF IsSome(probe.exec)
                  THEN Some([command |-> Get(probe.exec).command])
                  ELSE None
          port == Get(probe.httpGet).port
          portValue == IF port.type = "Int" THEN port.intVal
                       ELSE namedPortValue(port.strVal, ports)
          httpGET == IF IsSome(probe.httpGet)
                     THEN Some([port   |-> portValue,
                                path   |-> Get(probe.httpGet).path,
                                scheme |-> Get(probe.httpGet).scheme])
                     ELSE None
      IN  [err |-> NoErr,
           probe |-> Some([exec                |-> exec,
                           httpGet             |-> httpGET,
                           initialDelaySeconds |-> probe.initialDelaySeconds,
                           failureThreshold    |-> probe.failureThreshold,
                           successThreshold    |-> probe.successThreshold,
                           timeoutSeconds      |-> probe.timeoutSeconds,
                           periodSeconds       |-> probe.periodSeconds])]

getProbe(probe, ports) ==
    IF IsSome(probe.exec) /\ IsSome(probe.httpGet)
    THEN [err |-> Errorf("probe may not specify more than one of exec and httpGet"),
          probe |-> None]
    ELSE IF probe.exec = None /\ probe.httpGet = None
    THEN [err |-> Errorf("probe must specify one of exec and httpGet"),
          probe |-> None]
    ELSE
      LET exec == IF IsSome(probe.exec)
                  THEN Some([command |-> Get(probe.exec).command])
                  ELSE None
          port == Get(probe.httpGet).port
          portValue == IF port.type = "Int" THEN port.intVal
                       ELSE namedPortValue(port.strVal, ports)
          unresolved == /\ IsSome(probe.httpGet)
                        /\ port.type = "String"
                        /\ portValue = 0
          httpGET == IF IsSome(probe.httpGet)
                     THEN Some([port   |-> portValue,
                                path   |-> Get(probe.httpGet).path,
                                scheme |-> Get(probe.httpGet).scheme])
                     ELSE None
      IN  IF unresolved
          THEN [err |-> Errorf("unable to find named port"), probe |-> None]
          ELSE [err |-> NoErr,
                probe |-> Some([exec                |-> exec,
                                httpGet             |-> httpGET,
                                initialDelaySeconds |-> probe.initialDelaySeconds,
                                failureThreshold    |-> probe.failureThreshold,
                                successThreshold    |-> probe.successThreshold,
                                timeoutSeconds      |-> probe.timeoutSeconds,
                                periodSeconds       |-> probe.periodSeconds])]

----------------------------------------------------------------------------
(* getGPUSKU *)

\* getGPUSKU without the annotation lookup
getGPUSKUIgnoresAnnotation(prov, pd) ==
    IF Len(prov.gpuSKUs) = 0
    THEN [err |-> Errorf("ACI doesn't provide GPU enabled container group"),
          sku |-> <<>>]
    ELSE [err |-> NoErr, sku |-> prov.gpuSKUs[1]]

getGPUSKU(prov, pd) ==
    IF Len(prov.gpuSKUs) = 0
    THEN [err |-> Errorf("ACI doesn't provide GPU enabled container group"),
          sku |-> <<>>]
    ELSE IF IsSome(pd.annotations.gpuType)
    THEN LET desiredSKU == Get(pd.annotations.gpuType)
             hits == {i \in DOMAIN prov.gpuSKUs :
                         EqualFold(desiredSKU, prov.gpuSKUs[i])}
         IN  IF hits # {}
             THEN [err |-> NoErr, sku |-> prov.gpuSKUs[MinOf(hits)]]
             ELSE [err |-> Errorf("the pod requires a GPU SKU ACI does not support"),
                   sku |-> <<>>]
    ELSE [err |-> NoErr, sku |-> prov.gpuSKUs[1]]

----------------------------------------------------------------------------
(* getACIEnvVar, getEnvironmentVariables, getVolumeMounts, getCommand *)

\* getACIEnvVar without the SecureValue branch
getACIEnvVarPlain(e) ==
    [name |-> e.name, value |-> Some(e.value), secureValue |-> None]

getACIEnvVar(e) ==
    IF IsSome(e.valueFrom) /\ Get(e.valueFrom).secretKeyRef
    THEN [name |-> e.name, value |-> None, secureValue |-> Some(e.value)]
    ELSE [name |-> e.name, value |-> Some(e.value), secureValue |-> None]

getEnvironmentVariables(container) ==
    MapSeq(SelectSeq(container.env, LAMBDA e : e.value # ""), getACIEnvVar)

getVolumeMounts(container) ==
    [i \in DOMAIN container.volumeMounts |->
        [name      |-> container.volumeMounts[i].name,
         mountPath |-> container.volumeMounts[i].mountPath,
         readOnly  |-> container.volumeMounts[i].readOnly]]

getCommand(container) == container.command \o container.args

verifyContainer(container) ==
    IF Len(container.command) = 0 /\ Len(container.args) > 0
    THEN InvalidInput("ACI does not support providing args without specifying the command")
    ELSE NoErr

\* getProtocol lives outside aci.go: UDP stays UDP, anything else is TCP
getProtocol(pro) == IF pro = "UDP" THEN "UDP" ELSE "TCP"

----------------------------------------------------------------------------
(* getContainers: the resource arithmetic of one container *)

HasKey(m, k) == IsSome(m) /\ IsSome(Get(m)[k])
KeyOf(m, k) == Get(Get(m)[k])

\* the division rounding to the nearest 10m
cpuRequestRounded(container) ==
    IF HasKey(container.resources.requests, "cpu")
    THEN LET cpuRequest ==
                 ((KeyOf(container.resources.requests, "cpu") + 5) \div 10) * 10
         IN  IF cpuRequest < MinCPURequest THEN MinCPURequest ELSE cpuRequest
    ELSE DefaultCPURequest

\* Quantity.MilliValue()/10.00 is an int64 division: it truncates
cpuRequestOf(container) ==
    IF HasKey(container.resources.requests, "cpu")
    THEN LET cpuRequest ==
                 (KeyOf(container.resources.requests, "cpu") \div 10) * 10
         IN  IF cpuRequest < MinCPURequest THEN MinCPURequest ELSE cpuRequest
    ELSE DefaultCPURequest

\* the division rounding to the nearest 0.1 GB
memoryRequestRounded(container) ==
    IF HasKey(container.resources.requests, "memory")
    THEN LET memoryRequest ==
                 (KeyOf(container.resources.requests, "memory")
                     + (BytesPerTenthGB \div 2)) \div BytesPerTenthGB
         IN  IF memoryRequest < MinMemoryRequest THEN MinMemoryRequest
             ELSE memoryRequest
    ELSE DefaultMemoryRequest

\* Quantity.Value()/100000000.00 is an int64 division: it truncates
memoryRequestOf(container) ==
    IF HasKey(container.resources.requests, "memory")
    THEN LET memoryRequest ==
                 KeyOf(container.resources.requests, "memory") \div BytesPerTenthGB
         IN  IF memoryRequest < MinMemoryRequest THEN MinMemoryRequest
             ELSE memoryRequest
    ELSE DefaultMemoryRequest

\* an unspecified CPU limit taking the default request, not this container's
limitsDefaultNotMirrored(container, cpuRequest, memoryRequest) ==
    IF IsSome(container.resources.limits)
    THEN Some([cpu        |-> IF HasKey(container.resources.limits, "cpu")
                              THEN KeyOf(container.resources.limits, "cpu")
                              ELSE DefaultCPURequest,
               memoryInGB |-> IF HasKey(container.resources.limits, "memory")
                              THEN KeyOf(container.resources.limits, "memory")
                                       \div BytesPerTenthGB
                              ELSE memoryRequest,
               gpu        |-> None])
    ELSE None

\* the Limits the code builds before it looks at the GPU: none at all when the
\* pod's limits map is nil
limitsOf(container, cpuRequest, memoryRequest) ==
    IF IsSome(container.resources.limits)
    THEN Some([cpu        |-> IF HasKey(container.resources.limits, "cpu")
                              THEN KeyOf(container.resources.limits, "cpu")
                              ELSE cpuRequest,
               memoryInGB |-> IF HasKey(container.resources.limits, "memory")
                              THEN KeyOf(container.resources.limits, "memory")
                                       \div BytesPerTenthGB
                              ELSE memoryRequest,
               gpu        |-> None])
    ELSE None

\* the GPU block, given r = getGPUSKU(pod) and the gpu limit: [err, gpu], gpu
\* the resource put on both Requests and Limits
gpuResource(r, gpu) ==
    IF r.err # NoErr THEN [err |-> r.err, gpu |-> None]
    ELSE IF gpu = 0
    THEN [err |-> Errorf("GPU must be a integer number"), gpu |-> None]
    ELSE [err |-> NoErr, gpu |-> Some([count |-> gpu, sku |-> r.sku])]

gpuResourceOf(prov, pd, container) ==
    IF HasKey(container.resources.limits, gpuResourceName)
    THEN gpuResource(getGPUSKU(prov, pd),
                     KeyOf(container.resources.limits, gpuResourceName))
    ELSE [err |-> NoErr, gpu |-> None]

probeOf(probe, ports) ==
    IF IsSome(probe) THEN getProbe(Get(probe), SliceOf(ports))
    ELSE [err |-> NoErr, probe |-> None]

withGpu(limits, gpu) ==
    IF IsSome(limits) THEN Some([Get(limits) EXCEPT !.gpu = gpu]) ELSE None

\* the body of getContainers' loop, given the results of its calls:
\* g of the GPU block, live and ready of getProbe. [err, container]
aciContainer(container, cpuRequest, memoryRequest, g, live, ready) ==
    IF Len(container.command) = 0 /\ Len(container.args) > 0
    THEN [err |-> InvalidInput("ACI does not support providing args without specifying the command"),
          container |-> None]
    ELSE IF g.err # NoErr THEN [err |-> g.err, container |-> None]
    ELSE IF live.err # NoErr THEN [err |-> live.err, container |-> None]
    ELSE IF ready.err # NoErr THEN [err |-> ready.err, container |-> None]
    ELSE
      [err |-> NoErr,
       container |-> Some(
         [name                 |-> container.name,
          image                |-> container.image,
          command              |-> container.command \o container.args,
          ports                |->
              [i \in DOMAIN SliceOf(container.ports) |->
                  [port     |-> SliceOf(container.ports)[i].containerPort,
                   protocol |-> getProtocol(SliceOf(container.ports)[i].protocol)]],
          volumeMounts         |-> getVolumeMounts(container),
          environmentVariables |->
              MapSeq(SelectSeq(container.env, LAMBDA e : e.value # ""),
                     getACIEnvVar),
          resources            |->
              [requests |-> [cpu        |-> cpuRequest,
                             memoryInGB |-> memoryRequest,
                             gpu        |-> g.gpu],
               limits   |-> withGpu(limitsOf(container, cpuRequest, memoryRequest),
                                    g.gpu)],
          livenessProbe        |-> live.probe,
          readinessProbe       |-> ready.probe])]

translateContainer(prov, pd, container) ==
    aciContainer(container,
                 cpuRequestOf(container),
                 memoryRequestOf(container),
                 gpuResourceOf(prov, pd, container),
                 probeOf(container.livenessProbe, container.ports),
                 probeOf(container.readinessProbe, container.ports))

RECURSIVE getContainersFrom(_, _, _, _)
\* the end of one iteration: r is what translating container c gave
RECURSIVE getContainersNext(_, _, _, _, _)
getContainersNext(prov, pd, c, containers, r) ==
    IF r.err # NoErr
    THEN [err |-> r.err, containers |-> None]
    ELSE getContainersFrom(prov, pd, c + 1, Append(containers, Get(r.container)))

getContainersFrom(prov, pd, c, containers) ==
    IF c > Len(pd.containers)
    THEN [err |-> NoErr, containers |-> Some(containers)]
    ELSE getContainersNext(prov, pd, c, containers,
                           translateContainer(prov, pd, pd.containers[c]))

\* getContainers taking the args for the command when there is no command
getContainersNoArgsCheck(prov, pd) ==
    getContainersFrom(prov,
        [pd EXCEPT !.containers =
            [i \in DOMAIN pd.containers |->
                IF Len(pd.containers[i].command) = 0
                THEN [pd.containers[i] EXCEPT !.command = pd.containers[i].args,
                                              !.args = <<>>]
                ELSE pd.containers[i]]],
        1, <<>>)

getContainers(prov, pd) == getContainersFrom(prov, pd, 1, <<>>)

----------------------------------------------------------------------------
(* getInitContainers *)

\* Ports != nil read as len(Ports) > 0
initContainerCheckLenPorts(initContainer) ==
    IF verifyContainer(initContainer) # NoErr THEN verifyContainer(initContainer)
    ELSE IF Len(SliceOf(initContainer.ports)) > 0
    THEN InvalidInput("azure container instances initContainers do not support ports")
    ELSE IF IsSome(initContainer.resources.requests)
    THEN InvalidInput("azure container instances initContainers do not support resources requests")
    ELSE IF IsSome(initContainer.resources.limits)
    THEN InvalidInput("azure container instances initContainers do not support resources limits")
    ELSE IF IsSome(initContainer.livenessProbe)
    THEN InvalidInput("azure container instances initContainers do not support livenessProbe")
    ELSE IF IsSome(initContainer.readinessProbe)
    THEN InvalidInput("azure container instances initContainers do not support readinessProbe")
    ELSE NoErr

\* the checks at the head of getInitContainers' loop
initContainerCheck(initContainer) ==
    IF verifyContainer(initContainer) # NoErr THEN verifyContainer(initContainer)
    ELSE IF IsSome(initContainer.ports)
    THEN InvalidInput("azure container instances initContainers do not support ports")
    ELSE IF IsSome(initContainer.resources.requests)
    THEN InvalidInput("azure container instances initContainers do not support resources requests")
    ELSE IF IsSome(initContainer.resources.limits)
    THEN InvalidInput("azure container instances initContainers do not support resources limits")
    ELSE IF IsSome(initContainer.livenessProbe)
    THEN InvalidInput("azure container instances initContainers do not support livenessProbe")
    ELSE IF IsSome(initContainer.readinessProbe)
    THEN InvalidInput("azure container instances initContainers do not support readinessProbe")
    ELSE NoErr

newInitContainer(initContainer) ==
    [name                 |-> initContainer.name,
     image                |-> initContainer.image,
     command              |-> getCommand(initContainer),
     volumeMounts         |-> getVolumeMounts(initContainer),
     environmentVariables |-> getEnvironmentVariables(initContainer)]

RECURSIVE getInitContainersFrom(_, _, _)
RECURSIVE getInitContainersNext(_, _, _, _)
getInitContainersNext(pd, i, initContainers, e) ==
    IF e # NoErr
    THEN [err |-> e, initContainers |-> None]
    ELSE getInitContainersFrom(pd, i + 1,
             Append(initContainers, newInitContainer(pd.initContainers[i])))

getInitContainersFrom(pd, i, initContainers) ==
    IF i > Len(pd.initContainers)
    THEN [err |-> NoErr, initContainers |-> Some(initContainers)]
    ELSE getInitContainersNext(pd, i, initContainers,
                               initContainerCheck(pd.initContainers[i]))

getInitContainers(pd) == getInitContainersFrom(pd, 1, <<>>)

----------------------------------------------------------------------------
(* getImagePullSecrets *)

\* strings.Split(s, ":") on a tuple of characters
RECURSIVE SplitColon(_, _, _)
SplitColon(s, i, cur) ==
    IF i > Len(s) THEN <<cur>>
    ELSE IF s[i] = ":" THEN <<cur>> \o SplitColon(s, i + 1, <<>>)
    ELSE SplitColon(s, i + 1, Append(cur, s[i]))

\* base64.StdEncoding.DecodeString: an auth value is its decoding outcome
DecodeString(auth) ==
    IF auth.wellFormed THEN [err |-> NoErr, decoded |-> auth.decoded]
    ELSE [err |-> Errorf("illegal base64 data"), decoded |-> <<>>]

\* the username == "" branch, given d = DecodeString(authConfig.Auth) and
\* parts = strings.Split(decoded, ":")
credentialFromAuth(server, d, parts) ==
    IF d.err # NoErr
    THEN [err |-> Errorf("error decoding the auth"), cred |-> None]
    ELSE IF Len(parts) # 2
    THEN [err |-> Errorf("malformed auth"), cred |-> None]
    ELSE [err |-> NoErr,
          cred |-> Some([server   |-> server,
                         username |-> parts[1],
                         password |-> parts[2]])]

makeRegistryCredential(server, authConfig) ==
    IF authConfig.username = <<>>
    THEN IF authConfig.auth = None
         THEN [err |-> Errorf("no username present in auth config"), cred |-> None]
         ELSE credentialFromAuth(server,
                  DecodeString(Get(authConfig.auth)),
                  SplitColon(DecodeString(Get(authConfig.auth)).decoded, 1, <<>>))
    ELSE [err |-> NoErr,
          cred |-> Some([server   |-> server,
                         username |-> authConfig.username,
                         password |-> authConfig.password])]

makeRegistryCredentialFromDockerConfig(server, configEntry) ==
    IF configEntry.username = <<>>
    THEN [err |-> Errorf("no username present in auth config"), cred |-> None]
    ELSE [err |-> NoErr,
          cred |-> Some([server   |-> server,
                         username |-> configEntry.username,
                         password |-> configEntry.password])]

\* the range over the unmarshalled map; entries are in the order this run of
\* the loop visits them
RECURSIVE credsFrom(_, _, _, _)
RECURSIVE credsNext(_, _, _, _, _)
credsNext(entries, i, ips, fromDockerConfig, r) ==
    IF r.err # NoErr THEN [err |-> r.err, ips |-> ips]
    ELSE credsFrom(entries, i + 1, Append(ips, Get(r.cred)), fromDockerConfig)

credsFrom(entries, i, ips, fromDockerConfig) ==
    IF i > Len(entries) THEN [err |-> NoErr, ips |-> ips]
    ELSE credsNext(entries, i, ips, fromDockerConfig,
             IF fromDockerConfig
             THEN makeRegistryCredentialFromDockerConfig(entries[i].server, entries[i])
             ELSE makeRegistryCredential(entries[i].server, entries[i]))

\* json.Unmarshal of a secret's data into the map of its registry entries:
\* [err, auths]. Whether the data unmarshals is a property of the data; an
\* entry of the map holds what the unmarshalling left in it
Unmarshal(data) ==
    IF data.wellFormed THEN [err |-> NoErr, auths |-> data.entries]
    ELSE [err |-> Errorf("json: cannot unmarshal"), auths |-> <<>>]

\* readDockerCfgSecret after json.Unmarshal gave authConfigs
credsOfDockerCfg(authConfigs, ips) ==
    IF authConfigs.err # NoErr THEN [err |-> authConfigs.err, ips |-> ips]
    ELSE credsFrom(authConfigs.auths, 1, ips, FALSE)

readDockerCfgSecret(secret, ips) ==
    IF secret.dockercfg = None
    THEN [err |-> Errorf("no dockercfg present in secret"), ips |-> ips]
    ELSE credsOfDockerCfg(Unmarshal(Get(secret.dockercfg)), ips)

\* readDockerConfigJSONSecret after json.Unmarshal gave cfgJson
credsOfDockerConfigJSON(cfgJson, ips) ==
    IF cfgJson.err # NoErr THEN [err |-> cfgJson.err, ips |-> ips]
    ELSE IF Len(cfgJson.auths) = 0
    THEN [err |-> Errorf("malformed dockerconfigjson in secret"), ips |-> ips]
    ELSE credsFrom(cfgJson.auths, 1, ips, TRUE)

readDockerConfigJSONSecret(secret, ips) ==
    IF secret.dockerconfigjson = None
    THEN [err |-> Errorf("no dockerconfigjson present in secret"), ips |-> ips]
    ELSE credsOfDockerConfigJSON(Unmarshal(Get(secret.dockerconfigjson)), ips)

SecretTypeDockercfg == "kubernetes.io/dockercfg"
SecretTypeDockerConfigJson == "kubernetes.io/dockerconfigjson"

----------------------------------------------------------------------------
(* The secrets the resource manager holds *)

Chars_user == <<"u","s","e","r">>
Chars_pass == <<"p","w">>
Chars_userpass == <<"u","s","e","r",":","p","w">>
Chars_colonpass == <<":","p","w">>
Chars_nocolon == <<"u","s","e","r","p","w">>
Chars_twocolons == <<"u","s","e","r",":","p",":","w">>

AuthWellFormed(text) == Some([wellFormed |-> TRUE, decoded |-> text])
AuthMalformed == Some([wellFormed |-> FALSE, decoded |-> <<>>])

Entry(server, username, password, auth) ==
    [server |-> server, username |-> username, password |-> password, auth |-> auth]

Data(entries) == Some([wellFormed |-> TRUE, entries |-> entries])
DataMalformed == Some([wellFormed |-> FALSE, entries |-> <<>>])
\* data json.Unmarshal rejects for what an entry holds
DataRejected(entries) == Some([wellFormed |-> FALSE, entries |-> entries])

Dockercfg(data) ==
    [type |-> SecretTypeDockercfg, dockercfg |-> data, dockerconfigjson |-> None]
DockerConfigJson(data) ==
    [type |-> SecretTypeDockerConfigJson, dockercfg |-> None, dockerconfigjson |-> data]

E_userpass == Entry("reg1.io", Chars_user, Chars_pass, None)
E_auth == Entry("reg2.io", <<>>, <<>>, AuthWellFormed(Chars_userpass))
\* the same entry as the dockerconfigjson unmarshalling leaves it
E_authRead == Entry("reg2.io", Chars_user, Chars_pass, AuthWellFormed(Chars_userpass))

Found(secret) == [err |-> NoErr, secret |-> Some(secret)]

SecretStore ==
    [cfg_userpass  |-> Found(Dockercfg(Data(<<E_userpass>>))),
     cfg_auth      |-> Found(Dockercfg(Data(<<E_auth>>))),
     cfg_two       |-> Found(Dockercfg(Data(<<E_userpass, E_auth>>))),
     cfg_none      |-> Found(Dockercfg(Data(<<>>))),
     cfg_badjson   |-> Found(Dockercfg(DataMalformed)),
     cfg_badb64    |-> Found(Dockercfg(Data(
                          <<E_userpass, Entry("reg3.io", <<>>, <<>>, AuthMalformed)>>))),
     cfg_nocolon   |-> Found(Dockercfg(Data(
                          <<Entry("reg3.io", <<>>, <<>>, AuthWellFormed(Chars_nocolon))>>))),
     cfg_twocolons |-> Found(Dockercfg(Data(
                          <<Entry("reg3.io", <<>>, <<>>, AuthWellFormed(Chars_twocolons))>>))),
     cfg_nouser    |-> Found(Dockercfg(Data(<<Entry("reg3.io", <<>>, Chars_pass, None)>>))),
     cfg_nokey     |-> Found(Dockercfg(None)),
     cfg_userbadb64 |-> Found(Dockercfg(Data(
                          <<Entry("reg4.io", Chars_user, Chars_pass, AuthMalformed)>>))),
     json_userpass |-> Found(DockerConfigJson(Data(<<E_userpass>>))),
     json_auth     |-> Found(DockerConfigJson(Data(<<E_authRead>>))),
     json_two      |-> Found(DockerConfigJson(Data(<<E_authRead, E_userpass>>))),
     json_none     |-> Found(DockerConfigJson(Data(<<>>))),
     json_badjson  |-> Found(DockerConfigJson(DataMalformed)),
     json_badb64   |-> Found(DockerConfigJson(DataRejected(
                          <<Entry("reg3.io", <<>>, <<>>, AuthMalformed)>>))),
     json_nouser   |-> Found(DockerConfigJson(Data(
                          <<E_userpass, Entry("reg3.io", <<>>, Chars_pass, None)>>))),
     json_nokey    |-> Found(DockerConfigJson(None)),
     cfg_emptyuser |-> Found(Dockercfg(Data(
                          <<Entry("reg3.io", <<>>, <<>>, AuthWellFormed(Chars_colonpass))>>))),
     opaque        |-> Found([type |-> "Opaque", dockercfg |-> None,
                              dockerconfigjson |-> None]),
     missing       |-> [err |-> NoErr, secret |-> None],
     apierror      |-> [err |-> Errorf("the server could not be reached"),
                        secret |-> None]]

\* resourceManager.GetSecret(name, namespace): [err, secret]
GetSecret(name, namespace) == SecretStore[name]

\* the body of getImagePullSecrets' loop for one reference: [err, ips]
\* the loop body skipping a secret it cannot find or does not know the type of
readSecretSkipsMissing(got, ips) ==
    IF got.err # NoErr THEN [err |-> got.err, ips |-> ips]
    ELSE IF got.secret = None THEN [err |-> NoErr, ips |-> ips]
    ELSE IF Get(got.secret).type = SecretTypeDockercfg
    THEN readDockerCfgSecret(Get(got.secret), ips)
    ELSE IF Get(got.secret).type = SecretTypeDockerConfigJson
    THEN readDockerConfigJSONSecret(Get(got.secret), ips)
    ELSE [err |-> NoErr, ips |-> ips]

\* the body of getImagePullSecrets' loop, given got = GetSecret(ref): [err, ips]
readSecret(got, ips) ==
    IF got.err # NoErr THEN [err |-> got.err, ips |-> ips]
    ELSE IF got.secret = None
    THEN [err |-> Errorf("error getting image pull secret"), ips |-> ips]
    ELSE IF Get(got.secret).type = SecretTypeDockercfg
    THEN readDockerCfgSecret(Get(got.secret), ips)
    ELSE IF Get(got.secret).type = SecretTypeDockerConfigJson
    THEN readDockerConfigJSONSecret(Get(got.secret), ips)
    ELSE [err |-> Errorf("image pull secret type is not one of kubernetes.io/dockercfg or kubernetes.io/dockerconfigjson"),
          ips |-> ips]

RECURSIVE getImagePullSecretsFrom(_, _, _)
RECURSIVE getImagePullSecretsNext(_, _, _)
getImagePullSecretsNext(pd, i, r) ==
    IF r.err # NoErr THEN r
    ELSE getImagePullSecretsFrom(pd, i + 1, r.ips)

getImagePullSecretsFrom(pd, i, ips) ==
    IF i > Len(pd.imagePullSecrets) THEN [err |-> NoErr, ips |-> ips]
    ELSE getImagePullSecretsNext(pd, i,
             readSecret(GetSecret(pd.imagePullSecrets[i], pd.namespace), ips))

getImagePullSecrets(pd) == getImagePullSecretsFrom(pd, 1, <<>>)

----------------------------------------------------------------------------
(* getVolumes and amendVnetResources are methods declared outside aci.go *)

\* one group volume per pod volume, of the same name; a volume of a type ACI
\* has no counterpart for fails the translation
RECURSIVE getVolumesFrom(_, _, _)
getVolumesFrom(pd, i, volumes) ==
    IF i > Len(pd.volumes) THEN [err |-> NoErr, volumes |-> volumes]
    ELSE IF pd.volumes[i].type = "unsupported"
    THEN [err |-> Errorf("pod requires a volume which is of an unsupported type"),
          volumes |-> <<>>]
    ELSE getVolumesFrom(pd, i + 1,
             Append(volumes, [name |-> pd.volumes[i].name,
                              type |-> pd.volumes[i].type]))

getVolumes(pd) == getVolumesFrom(pd, 1, <<>>)

\* adds the subnet of a provider that has one; leaves the rest of the request
amendVnetResources(prov, cg) ==
    IF prov.subnetName = "" THEN cg
    ELSE [cg EXCEPT !.subnetIds = <<prov.subnetName>>]

----------------------------------------------------------------------------
(* filterWindowsServiceAccountSecretVolume *)

isServiceAccountMount(volumeMount) ==
    EqualFold(serviceAccountSecretMountPath, volumeMount.mountPath)

filterWindowsServiceAccountSecretVolume(osType, cgw) ==
    IF EqualFold(osType, WindowsLiteral)
    THEN LET serviceAccountSecretVolumeName ==
                 {vm.name : vm \in
                     {m \in UNION {Range(cgw.containers[i].volumeMounts) :
                                      i \in DOMAIN cgw.containers} :
                         isServiceAccountMount(m)}}
             containers ==
                 [i \in DOMAIN cgw.containers |->
                     [cgw.containers[i] EXCEPT !.volumeMounts =
                         SelectSeq(@, LAMBDA vm : ~isServiceAccountMount(vm))]]
         IN  IF serviceAccountSecretVolumeName = {}
             THEN [cgw EXCEPT !.containers = containers]
             ELSE [cgw EXCEPT !.containers = containers,
                              !.volumes = SelectSeq(@,
                                  LAMBDA v : v.name \notin serviceAccountSecretVolumeName)]
    ELSE cgw

----------------------------------------------------------------------------
(* getDiagnostics *)

\* [diagnostics: what the request gets, provider: p.diagnostics afterwards].
\* d := *p.diagnostics copies the struct, not the LogAnalytics it points to:
\* the pod's UID is written into the provider's own metadata map
getDiagnostics(prov, pd) ==
    IF /\ IsSome(prov.diagnostics)
       /\ IsSome(Get(prov.diagnostics).logAnalytics)
       /\ Get(Get(prov.diagnostics).logAnalytics).logType
              = LogAnalyticsLogTypeContainerInsights
    THEN LET la == Get(Get(prov.diagnostics).logAnalytics)
             d == Some([logAnalytics |->
                     Some([la EXCEPT !.metadata =
                              (LogAnalyticsMetadataKeyPodUUID :> pd.uid) @@ @])])
         IN  [diagnostics |-> d, provider |-> d]
    ELSE [diagnostics |-> prov.diagnostics, provider |-> prov.diagnostics]

----------------------------------------------------------------------------
(* CreatePod, up to the call of CreateContainerGroup *)

\* the ports of the public IP: every port of every translated container, TCP
ipPortsOf(containers) ==
    Flatten([c \in DOMAIN containers |->
                [i \in DOMAIN containers[c].ports |->
                    [port |-> containers[c].ports[i].port, protocol |-> "TCP"]]])

\* the public IP attached whatever the subnet
ipAddressIgnoresSubnet(prov, pd, ports) ==
    IF Len(ports) > 0
    THEN Some([ports |-> ports, type |-> "Public",
               dnsNameLabel |-> IF pd.annotations.dnsNameLabel # ""
                                THEN Some(pd.annotations.dnsNameLabel)
                                ELSE None])
    ELSE None

\* "create ipaddress if containerPort is used"
ipAddressOf(prov, pd, ports) ==
    IF Len(ports) > 0 /\ prov.subnetName = ""
    THEN Some([ports |-> ports, type |-> "Public",
               dnsNameLabel |-> IF pd.annotations.dnsNameLabel # ""
                                THEN Some(pd.annotations.dnsNameLabel)
                                ELSE None])
    ELSE None

\* the request once every translation succeeded: "assign all the things", the
\* Windows filter, the public IP, the tags, the subnet
containerGroupOf(prov, pd, containers, creds, volumes, initContainers, diagnostics) ==
    LET cg == filterWindowsServiceAccountSecretVolume(prov.operatingSystem,
                  [location                 |-> prov.region,
                   restartPolicy            |-> pd.restartPolicy,
                   osType                   |-> prov.operatingSystem,
                   initContainers           |-> initContainers,
                   containers               |-> containers,
                   volumes                  |-> volumes,
                   imageRegistryCredentials |-> creds,
                   diagnostics              |-> diagnostics,
                   ipAddress                |-> None,
                   tags                     |->
                       [PodName           |-> pd.name,
                        ClusterName       |-> pd.clusterName,
                        NodeName          |-> pd.nodeName,
                        Namespace         |-> pd.namespace,
                        UID               |-> pd.uid,
                        CreationTimestamp |-> pd.creationTimestamp],
                   subnetIds                |-> <<>>])
    IN  amendVnetResources(prov,
            [cg EXCEPT !.ipAddress = ipAddressOf(prov, pd, ipPortsOf(cg.containers))])

\* CreatePod up to its last line, given what its translation calls returned:
\* [err, cg, diagnostics], cg the request for CreateContainerGroup and
\* diagnostics the provider's p.diagnostics afterwards
translated(prov, pd, cs, creds, vols, inits, diag) ==
    IF cs.err # NoErr
    THEN [err |-> cs.err, cg |-> None, diagnostics |-> prov.diagnostics]
    ELSE IF creds.err # NoErr
    THEN [err |-> creds.err, cg |-> None, diagnostics |-> prov.diagnostics]
    ELSE IF vols.err # NoErr
    THEN [err |-> vols.err, cg |-> None, diagnostics |-> prov.diagnostics]
    ELSE IF inits.err # NoErr
    THEN [err |-> inits.err, cg |-> None, diagnostics |-> prov.diagnostics]
    ELSE [err |-> NoErr,
          cg |-> Some(containerGroupOf(prov, pd, Get(cs.containers), creds.ips,
                                       vols.volumes, Get(inits.initContainers),
                                       diag.diagnostics)),
          diagnostics |-> diag.provider]

buildContainerGroup(prov, pd) ==
    translated(prov, pd,
               getContainers(prov, pd),
               getImagePullSecrets(pd),
               getVolumes(pd),
               getInitContainers(pd),
               getDiagnostics(prov, pd))

\* the model stops after this many CreateContainerGroup calls
MaxCreateCalls == 2

\* the return of CreatePod: r is what buildContainerGroup gave, backendErr
\* what CreateContainerGroup answers if it is called
CreatePodReturns(pd, backendErr, r) ==
    /\ pod' = Some(pd)
    /\ p' = [p EXCEPT !.diagnostics = r.diagnostics]
    /\ submitted' = r.cg
    /\ IF r.err # NoErr
       THEN /\ err' = r.err
            /\ createCalls' = createCalls
       ELSE /\ err' = backendErr
            /\ createCalls' = createCalls + 1

CreatePod(pd, backendErr) ==
    /\ pod = None
    /\ createCalls < MaxCreateCalls
    /\ CreatePodReturns(pd, backendErr, buildContainerGroup(p, pd))
    /\ UNCHANGED <<listVars, execVars, trackVars, otherVars>>

\* the caller has the result of its call; the provider keeps what it changed
Return ==
    /\ pod # None
    /\ pod' = None
    /\ err' = NoErr
    /\ submitted' = None
    /\ UNCHANGED <<p, createCalls, listVars, execVars, trackVars, otherVars>>

----------------------------------------------------------------------------
(* The providers NewACIProvider can have built *)

OS_Linux == <<"L","i","n","u","x">>
OS_Windows == <<"W","i","n","d","o","w","s">>
OS_windows == <<"w","i","n","d","o","w","s">>

SKU_K80 == <<"K","8","0">>
SKU_k80 == <<"k","8","0">>
SKU_P100 == <<"P","1","0","0">>
SKU_V100 == <<"V","1","0","0">>

ContainerInsights ==
    Some([logAnalytics |->
        Some([logType  |-> LogAnalyticsLogTypeContainerInsights,
              metadata |-> ("cluster-resource-id" :> "cluster-1") @@
                            ("node-name" :> "vk")])])

Provider(os, subnet, skus, diag) ==
    [region          |-> "westus",
     nodeName        |-> "vk",
     operatingSystem |-> os,
     subnetName      |-> subnet,
     gpuSKUs         |-> skus,
     diagnostics     |-> diag]

Providers ==
    {Provider(os, subnet, <<SKU_P100>>, None) :
        os \in {OS_Linux, OS_Windows, OS_windows}, subnet \in {"", "subnet-1"}}
    \cup
    {Provider(OS_Linux, "", skus, diag) :
        skus \in {<<>>, <<SKU_P100>>, <<SKU_K80, SKU_P100>>, <<SKU_P100, SKU_k80, SKU_K80>>},
        diag \in {None, ContainerInsights}}

----------------------------------------------------------------------------
(* The pods CreatePod is called with *)

\* CPU requests run over 0..MaxMilliCPU millicores and a few larger values
MaxMilliCPU == 25
\* memory requests run over 0..MaxMemoryUnits times 10 MB and a few others
MaxMemoryUnits == 20

BaseContainer ==
    [name           |-> "c1",
     image          |-> "nginx",
     command        |-> <<"sh">>,
     args           |-> <<>>,
     ports          |-> None,
     volumeMounts   |-> <<>>,
     env            |-> <<>>,
     resources      |-> [requests |-> None, limits |-> None],
     livenessProbe  |-> None,
     readinessProbe |-> None]

BasePod ==
    [name             |-> "pod-1",
     namespace        |-> "default",
     uid              |-> "uid-1",
     clusterName      |-> "",
     creationTimestamp |-> "2020-01-02 03:04:05 +0000 UTC",
     nodeName         |-> "vk",
     annotations      |-> [gpuType |-> None, dnsNameLabel |-> ""],
     restartPolicy    |-> "Always",
     containers       |-> <<BaseContainer>>,
     initContainers   |-> <<>>,
     volumes          |-> <<>>,
     imagePullSecrets |-> <<>>]

PodOf(containers) == [BasePod EXCEPT !.containers = containers]

Requests(cpu, memory) == Some([cpu |-> cpu, memory |-> memory])
Limits(cpu, memory, gpu) ==
    Some(("cpu" :> cpu) @@ ("memory" :> memory) @@ (gpuResourceName :> gpu))

WithResources(requests, limits) ==
    [BaseContainer EXCEPT !.resources = [requests |-> requests, limits |-> limits]]

\* command and args
ArgsNoCommand == [BaseContainer EXCEPT !.name = "c2", !.command = <<>>, !.args = <<"-c">>]

CommandPods ==
    {PodOf(<<[BaseContainer EXCEPT !.command = command, !.args = args]>>) :
        command \in {<<>>, <<"sh">>}, args \in {<<>>, <<"-c">>, <<"-c", "ls">>}}
    \cup {PodOf(<<BaseContainer, ArgsNoCommand>>),
          PodOf(<<ArgsNoCommand, BaseContainer>>),
          [PodOf(<<ArgsNoCommand>>) EXCEPT !.imagePullSecrets = <<"cfg_userpass">>]}

\* resource requests
CpuMilliValues == (0..MaxMilliCPU) \cup {99, 100, 995, 1000, 1981}
MemoryByteValues ==
    {k * 10000000 : k \in 0..MaxMemoryUnits}
    \cup {49999999, 50000000, 99999999, 100000001, 1490000000}

CpuPods == {PodOf(<<WithResources(Requests(Some(m), None), None)>>) : m \in CpuMilliValues}
MemoryPods ==
    {PodOf(<<WithResources(Requests(None, Some(b)), None)>>) : b \in MemoryByteValues}

\* resource limits
LimitPods ==
    {PodOf(<<WithResources(requests, limits)>>) :
        requests \in {None, Requests(None, None), Requests(Some(250), None),
                      Requests(Some(257), Some(349000000))},
        limits \in {None, Limits(None, None, None), Limits(Some(505), None, None),
                    Limits(None, Some(450000000), None),
                    Limits(Some(505), Some(450000000), None)}}

\* GPU limits and the gpu-type annotation
GpuPods ==
    {[PodOf(<<WithResources(None, Limits(None, None, Some(gpu)))>>)
         EXCEPT !.annotations.gpuType = gpuType] :
        gpu \in {0, 1, 2},
        gpuType \in {None, Some(SKU_K80), Some(SKU_k80), Some(SKU_V100), Some(<<>>)}}
    \cup {PodOf(<<BaseContainer,
                  [WithResources(None, Limits(None, None, Some(gpu))) EXCEPT !.name = "c2"]>>) :
             gpu \in {0, 2}}

\* container ports, the DNS name label
Port(name, containerPort, protocol) ==
    [name |-> name, containerPort |-> containerPort, protocol |-> protocol]
WithPorts(ports) == [BaseContainer EXCEPT !.ports = ports]

PortPods ==
    {[PodOf(containers) EXCEPT !.annotations.dnsNameLabel = label] :
        containers \in
            {<<WithPorts(None)>>,
             <<WithPorts(Some(<<>>))>>,
             <<WithPorts(Some(<<Port("http", 80, "TCP")>>))>>,
             <<WithPorts(Some(<<Port("http", 80, "TCP"), Port("dns", 53, "UDP")>>))>>,
             <<WithPorts(Some(<<Port("http", 80, "TCP")>>)),
               [WithPorts(Some(<<Port("http", 80, "TCP"), Port("alt", 8080, "TCP")>>))
                   EXCEPT !.name = "c2"]>>,
             <<WithPorts(None),
               [WithPorts(Some(<<Port("alt", 8080, "TCP")>>)) EXCEPT !.name = "c2"]>>},
        label \in {"", "mylabel"}}

\* volumes and volume mounts
Path_data == <<"/","d","a","t","a">>
Path_other == <<"/","s","a">>
Path_SA_upper == [serviceAccountSecretMountPath EXCEPT ![2] = "V", ![3] = "A", ![4] = "R"]

Mount(name, mountPath) == [name |-> name, mountPath |-> mountPath, readOnly |-> TRUE]
MountSA == Mount("kube-api-access", serviceAccountSecretMountPath)
WithMounts(volumeMounts) == [BaseContainer EXCEPT !.volumeMounts = volumeMounts]
InitContainer(volumeMounts) ==
    [BaseContainer EXCEPT !.name = "init1", !.volumeMounts = volumeMounts]

TwoVolumes ==
    <<[name |-> "kube-api-access", type |-> "projected"],
      [name |-> "data", type |-> "emptyDir"]>>

VolumePods ==
    {[PodOf(<<WithMounts(volumeMounts)>>)
         EXCEPT !.volumes = TwoVolumes, !.initContainers = initContainers] :
        volumeMounts \in
            {<<>>,
             <<MountSA>>,
             <<Mount("kube-api-access", Path_SA_upper)>>,
             <<Mount("data", Path_data)>>,
             <<MountSA, Mount("data", Path_data)>>,
             <<MountSA, Mount("kube-api-access", Path_other)>>,
             <<MountSA, Mount("data", serviceAccountSecretMountPath)>>},
        initContainers \in {<<>>, <<InitContainer(<<MountSA>>)>>,
                            <<InitContainer(<<Mount("data", Path_data)>>)>>}}
    \cup {[PodOf(<<WithMounts(<<MountSA>>)>>)
              EXCEPT !.volumes = <<[name |-> "kube-api-access", type |-> "projected"]>>],
          [PodOf(<<WithMounts(<<MountSA>>),
                   [WithMounts(<<Mount("kube-api-access", Path_other)>>) EXCEPT !.name = "c2"]>>)
              EXCEPT !.volumes = TwoVolumes],
          [PodOf(<<BaseContainer>>)
              EXCEPT !.volumes = <<[name |-> "host", type |-> "unsupported"]>>]}

\* image pull secrets
SecretNames == DOMAIN SecretStore

SecretPods ==
    {[BasePod EXCEPT !.imagePullSecrets = refs] :
        refs \in {<<name>> : name \in SecretNames}
                 \cup {<<"cfg_two", name>> : name \in SecretNames}
                 \cup {<<name, "json_auth">> : name \in SecretNames}}

\* probes
Timing1 ==
    [initialDelaySeconds |-> 1, failureThreshold |-> 2, successThreshold |-> 3,
     timeoutSeconds |-> 4, periodSeconds |-> 5]
Timing2 ==
    [initialDelaySeconds |-> 10, failureThreshold |-> 9, successThreshold |-> 8,
     timeoutSeconds |-> 7, periodSeconds |-> 6]

Probe(exec, httpGet, tcpSocket, timing) ==
    [exec                |-> exec,
     httpGet             |-> httpGet,
     tcpSocket           |-> tcpSocket,
     initialDelaySeconds |-> timing.initialDelaySeconds,
     failureThreshold    |-> timing.failureThreshold,
     successThreshold    |-> timing.successThreshold,
     timeoutSeconds      |-> timing.timeoutSeconds,
     periodSeconds       |-> timing.periodSeconds]

ExecAction == Some([command |-> <<"cat", "/tmp/healthy">>])
PortInt(n) == [type |-> "Int", intVal |-> n, strVal |-> ""]
PortName(name) == [type |-> "String", intVal |-> 0, strVal |-> name]
HTTPGet(port) == Some([path |-> "/healthz", scheme |-> "HTTP", port |-> port])

Handlers ==
    {<<ExecAction, None>>, <<None, None>>,
     <<ExecAction, HTTPGet(PortInt(8080))>>, <<ExecAction, HTTPGet(PortName("nope"))>>}
    \cup {<<None, HTTPGet(port)>> :
             port \in {PortInt(8080), PortInt(0), PortName("http"), PortName("metrics"),
                       PortName("nope"), PortName("zero"), PortName("")}}

ProbePorts ==
    Some(<<Port("http", 80, "TCP"), Port("metrics", 9090, "TCP"),
           Port("metrics", 9091, "TCP"), Port("zero", 0, "TCP")>>)

ProbePods ==
    {PodOf(<<[WithPorts(ProbePorts) EXCEPT
                 !.livenessProbe = Some(Probe(h[1], h[2], tcpSocket, Timing1))]>>) :
        h \in Handlers, tcpSocket \in BOOLEAN}
    \cup
    {PodOf(<<[WithPorts(ProbePorts) EXCEPT
                 !.readinessProbe = Some(Probe(h[1], h[2], FALSE, Timing2))]>>) :
        h \in Handlers}
    \cup
    {PodOf(<<[WithPorts(ports) EXCEPT
                 !.livenessProbe = Some(Probe(ExecAction, None, FALSE, Timing2)),
                 !.readinessProbe =
                     Some(Probe(None, HTTPGet(PortName("http")), FALSE, Timing1))]>>) :
        ports \in {None, ProbePorts}}

\* init containers
OkInit == InitContainer(<<Mount("data", Path_data)>>)
EnvInit ==
    [OkInit EXCEPT !.name = "init2", !.args = <<"-x">>,
        !.env = <<[name |-> "A", value |-> "1", valueFrom |-> None],
                  [name |-> "B", value |-> "", valueFrom |-> None],
                  [name |-> "C", value |-> "s3cret",
                   valueFrom |-> Some([secretKeyRef |-> TRUE])]>>]

InitContainers ==
    {OkInit, EnvInit,
     [OkInit EXCEPT !.ports = Some(<<>>)],
     [OkInit EXCEPT !.ports = Some(<<Port("http", 80, "TCP")>>)],
     [OkInit EXCEPT !.resources.requests = Requests(None, None)],
     [OkInit EXCEPT !.resources.requests = Requests(Some(100), None)],
     [OkInit EXCEPT !.resources.limits = Limits(None, None, None)],
     [OkInit EXCEPT !.livenessProbe = Some(Probe(ExecAction, None, FALSE, Timing1))],
     [OkInit EXCEPT !.readinessProbe = Some(Probe(ExecAction, None, FALSE, Timing1))],
     [OkInit EXCEPT !.command = <<>>, !.args = <<"-c">>]}

InitPods ==
    {[BasePod EXCEPT !.volumes = TwoVolumes, !.initContainers = inits] :
        inits \in {<<i>> : i \in InitContainers}
                  \cup {<<EnvInit, i>> : i \in InitContainers}
                  \cup {<<i, EnvInit>> : i \in InitContainers}}

\* environment variables
Env(name, value, valueFrom) == [name |-> name, value |-> value, valueFrom |-> valueFrom]
SecretKeyRef == Some([secretKeyRef |-> TRUE])
OtherRef == Some([secretKeyRef |-> FALSE])

EnvVars ==
    {Env("PLAIN", "1", None), Env("EMPTY", "", None),
     Env("TOKEN", "s3cret", SecretKeyRef), Env("UNSET", "", SecretKeyRef),
     Env("ZONE", "west", OtherRef)}

EnvPods ==
    {PodOf(<<[BaseContainer EXCEPT !.env = <<e1, e2>>],
             [BaseContainer EXCEPT !.name = "c2", !.env = <<e3>>]>>) :
        e1 \in EnvVars, e2 \in EnvVars, e3 \in {Env("TOKEN", "s3cret", SecretKeyRef),
                                                 Env("EMPTY", "", None)}}
    \cup {[PodOf(<<[BaseContainer EXCEPT !.env = <<e1>>]>>)
               EXCEPT !.initContainers = <<[OkInit EXCEPT !.env = <<e2, e1>>]>>,
                      !.volumes = TwoVolumes] :
             e1 \in EnvVars, e2 \in EnvVars}

Pods == EnvPods \cup CommandPods \cup CpuPods \cup MemoryPods \cup LimitPods \cup GpuPods
        \cup PortPods \cup VolumePods \cup SecretPods \cup ProbePods \cup InitPods

\* what CreateContainerGroup answers
BackendErrs == {NoErr, Errorf("the backend refused the request")}

----------------------------------------------------------------------------
(* The specification *)

Init ==
    /\ p \in Providers
    /\ pod = None
    /\ err = NoErr
    /\ submitted = None
    /\ createCalls = 0
    /\ NoListing
    /\ NoExec
    /\ NoOthers
    /\ NoTracking

Next ==
    \/ \E pd \in Pods, backendErr \in BackendErrs : CreatePod(pd, backendErr)
    \/ Return

Spec == Init /\ [][Next]_vars

----------------------------------------------------------------------------
(* Properties of CreatePod *)

\* a call of CreatePod has returned and the model has not yet moved on
Called == pod # None
\* the call got as far as building the request for CreateContainerGroup
Translated == pod # None /\ submitted # None
ThePod == Get(pod)
TheGroup == Get(submitted)

HasArgsWithoutCommand(pd) ==
    \E c \in DOMAIN pd.containers :
        Len(pd.containers[c].command) = 0 /\ Len(pd.containers[c].args) > 0

\* the error of the first translation step of CreatePod that fails, in the
\* order CreatePod takes them; NoErr when none does
FirstTranslationError(prov, pd) ==
    IF getContainers(prov, pd).err # NoErr THEN getContainers(prov, pd).err
    ELSE IF getImagePullSecrets(pd).err # NoErr THEN getImagePullSecrets(pd).err
    ELSE IF getVolumes(pd).err # NoErr THEN getVolumes(pd).err
    ELSE getInitContainers(pd).err

----------------------------------------------------------------------------
(* CPU and memory requests *)

\* the CPU request container c of the pod declares, in millicores, if any
PodCpuRequest(c) == KeyOf(ThePod.containers[c].resources.requests, "cpu")
DeclaresCpuRequest(c) == HasKey(ThePod.containers[c].resources.requests, "cpu")
GroupCpuRequest(c) == TheGroup.containers[c].resources.requests.cpu

\* k is an integer nearest to m / d (either neighbour on a tie)
IsNearest(k, m, d) == -d <= 2 * (m - k * d) /\ 2 * (m - k * d) <= d

\* C2 as stated: the translated CPU request is max(0.01, round(m / 10) / 100)
\* cores for a request of m millicores. In millicores: the larger of 10 and
\* ten times the integer nearest to m / 10.
C2_CpuRequestRounded ==
    Translated =>
        \A c \in DOMAIN ThePod.containers :
            DeclaresCpuRequest(c) =>
                \E k \in 0..((PodCpuRequest(c) \div 10) + 1) :
                    /\ IsNearest(k, PodCpuRequest(c), 10)
                    /\ GroupCpuRequest(c) = IF k < 1 THEN MinCPURequest ELSE 10 * k

\* C2: the translated CPU request is the request cut down to a whole multiple
\* of 10 millicores (0.01 core), and 0.01 core when that is less; a container
\* that declares no CPU request gets 1 core.
C2_CpuRequestTruncated ==
    Translated =>
        \A c \in DOMAIN ThePod.containers :
            IF DeclaresCpuRequest(c)
            THEN /\ GroupCpuRequest(c) % 10 = 0
                 /\ GroupCpuRequest(c) >= MinCPURequest
                 /\ PodCpuRequest(c) >= MinCPURequest =>
                        /\ GroupCpuRequest(c) <= PodCpuRequest(c)
                        /\ PodCpuRequest(c) < GroupCpuRequest(c) + 10
                 /\ PodCpuRequest(c) < MinCPURequest =>
                        GroupCpuRequest(c) = MinCPURequest
            ELSE GroupCpuRequest(c) = DefaultCPURequest

\* a request of 16 millicores became 0.01 core, where rounding gives 0.02
C2_Witness ==
    /\ Translated
    /\ DeclaresCpuRequest(1)
    /\ PodCpuRequest(1) = 16
    /\ GroupCpuRequest(1) = 10

\* the memory request container c of the pod declares, in bytes, if any
PodMemoryRequest(c) == KeyOf(ThePod.containers[c].resources.requests, "memory")
DeclaresMemoryRequest(c) == HasKey(ThePod.containers[c].resources.requests, "memory")
\* the translated memory request, in units of 0.1 GB
GroupMemoryRequest(c) == TheGroup.containers[c].resources.requests.memoryInGB

\* C3 as stated: the translated memory request is
\* max(0.1, round(bytes / 1e8) / 10) GB.
C3_MemoryRequestRounded ==
    Translated =>
        \A c \in DOMAIN ThePod.containers :
            DeclaresMemoryRequest(c) =>
                \E k \in 0..((PodMemoryRequest(c) \div BytesPerTenthGB) + 1) :
                    /\ IsNearest(k, PodMemoryRequest(c), BytesPerTenthGB)
                    /\ GroupMemoryRequest(c) = IF k < 1 THEN MinMemoryRequest ELSE k

\* C3: the translated memory request is the request cut down to a whole
\* multiple of 0.1 GB (1e8 bytes), and 0.1 GB when that is less; a container
\* that declares no memory request gets 1.5 GB.
C3_MemoryRequestTruncated ==
    Translated =>
        \A c \in DOMAIN ThePod.containers :
            IF DeclaresMemoryRequest(c)
            THEN /\ GroupMemoryRequest(c) >= MinMemoryRequest
                 /\ PodMemoryRequest(c) >= BytesPerTenthGB =>
                        /\ GroupMemoryRequest(c) * BytesPerTenthGB <= PodMemoryRequest(c)
                        /\ PodMemoryRequest(c) - GroupMemoryRequest(c) * BytesPerTenthGB
                               < BytesPerTenthGB
                 /\ PodMemoryRequest(c) < BytesPerTenthGB =>
                        GroupMemoryRequest(c) = MinMemoryRequest
            ELSE GroupMemoryRequest(c) = DefaultMemoryRequest

\* a request of 160 MB became 0.1 GB, where rounding gives 0.2 GB
C3_Witness ==
    /\ Translated
    /\ DeclaresMemoryRequest(1)
    /\ PodMemoryRequest(1) = 160000000
    /\ GroupMemoryRequest(1) = 1

----------------------------------------------------------------------------
(* Limits *)

PodLimits(c) == ThePod.containers[c].resources.limits
GroupLimits(c) == TheGroup.containers[c].resources.limits

\* C4 as stated: a container whose spec gives no CPU limit (no memory limit),
\* or no limits at all, is translated with a CPU limit (memory limit) equal to
\* its translated CPU request (memory request).
C4_LimitsAlwaysMirrorRequests ==
    Translated =>
        \A c \in DOMAIN ThePod.containers :
            /\ ~HasKey(PodLimits(c), "cpu") =>
                   /\ IsSome(GroupLimits(c))
                   /\ Get(GroupLimits(c)).cpu = GroupCpuRequest(c)
            /\ ~HasKey(PodLimits(c), "memory") =>
                   /\ IsSome(GroupLimits(c))
                   /\ Get(GroupLimits(c)).memoryInGB = GroupMemoryRequest(c)

\* C4: a container whose spec has limits but no CPU limit (no memory limit)
\* among them is translated with a CPU limit (memory limit) equal to its
\* translated CPU request (memory request); a container whose spec has no
\* limits at all is translated without limits.
C4_LimitsMirrorRequestsWhenLimitsGiven ==
    Translated =>
        \A c \in DOMAIN ThePod.containers :
            IF IsSome(PodLimits(c))
            THEN /\ IsSome(GroupLimits(c))
                 /\ ~HasKey(PodLimits(c), "cpu") =>
                        Get(GroupLimits(c)).cpu = GroupCpuRequest(c)
                 /\ ~HasKey(PodLimits(c), "memory") =>
                        Get(GroupLimits(c)).memoryInGB = GroupMemoryRequest(c)
            ELSE GroupLimits(c) = None

\* a container with a memory limit and no CPU limit got its CPU request of
\* 250 millicores as its CPU limit
C4_Witness ==
    /\ Translated
    /\ IsSome(PodLimits(1))
    /\ ~HasKey(PodLimits(1), "cpu")
    /\ HasKey(PodLimits(1), "memory")
    /\ DeclaresCpuRequest(1)
    /\ GroupCpuRequest(1) = 250
    /\ Get(GroupLimits(1)).cpu = 250

----------------------------------------------------------------------------
(* GPU *)

DeclaresGpuLimit(c) == HasKey(PodLimits(c), gpuResourceName)
PodGpuLimit(c) == KeyOf(PodLimits(c), gpuResourceName)
SomeGpuLimit == \E c \in DOMAIN ThePod.containers : DeclaresGpuLimit(c)

\* the supported SKUs the pod's gpu-type annotation matches, by position
MatchingSKUs ==
    {i \in DOMAIN p.gpuSKUs :
        EqualFold(Get(ThePod.annotations.gpuType), p.gpuSKUs[i])}

\* the three conditions for a GPU limit to translate
GpuResolvable ==
    /\ Len(p.gpuSKUs) > 0
    /\ \A c \in DOMAIN ThePod.containers :
           DeclaresGpuLimit(c) => PodGpuLimit(c) # 0
    /\ IsSome(ThePod.annotations.gpuType) => MatchingSKUs # {}

\* the SKU a resolvable GPU limit gets
ExpectedSKU ==
    IF IsSome(ThePod.annotations.gpuType)
    THEN p.gpuSKUs[MinOf(MatchingSKUs)]
    ELSE p.gpuSKUs[1]

\* C5: when a container declares a GPU limit, translation succeeds only if
\* the supported-SKU list is non-empty, the count is non-zero and the gpu-type
\* annotation is absent or equals a supported SKU ignoring case; on success
\* the SKU is the first supported one matching the annotation (the first
\* supported one when there is no annotation), with the declared count, on
\* both the request and the limit; otherwise CreatePod fails and no container
\* list reaches a request.
C5_GpuSkuResolution ==
    (Called /\ SomeGpuLimit) =>
        IF GpuResolvable
        THEN Translated =>
                 \A c \in DOMAIN ThePod.containers :
                     DeclaresGpuLimit(c) =>
                         /\ TheGroup.containers[c].resources.requests.gpu
                                = Some([count |-> PodGpuLimit(c), sku |-> ExpectedSKU])
                         /\ IsSome(GroupLimits(c))
                         /\ Get(GroupLimits(c)).gpu
                                = Some([count |-> PodGpuLimit(c), sku |-> ExpectedSKU])
        ELSE /\ err # NoErr
             /\ submitted = None

\* limit 2, annotation K80, supported list [P100]: CreatePod failed
C5_Witness ==
    /\ Called
    /\ DeclaresGpuLimit(1)
    /\ PodGpuLimit(1) = 2
    /\ ThePod.annotations.gpuType = Some(SKU_K80)
    /\ p.gpuSKUs = <<SKU_P100>>
    /\ err # NoErr
    /\ submitted = None

----------------------------------------------------------------------------
(* The public IP address *)

\* the container ports the pod's containers expose, in order
PodPorts ==
    Flatten([c \in DOMAIN ThePod.containers |->
                [i \in DOMAIN SliceOf(ThePod.containers[c].ports) |->
                    SliceOf(ThePod.containers[c].ports)[i].containerPort]])

\* C6: the request carries a public IP address if and only if some container
\* of the pod exposes a port and the provider has no subnet; its port list is
\* then exactly the ports the pod's containers expose; and the DNS name label
\* of the annotation is attached to that IP, so only when there is one.
C6_PublicIPAddress ==
    Translated =>
        /\ IsSome(TheGroup.ipAddress) <=> (Len(PodPorts) > 0 /\ p.subnetName = "")
        /\ IsSome(TheGroup.ipAddress) =>
               /\ Get(TheGroup.ipAddress).type = "Public"
               /\ [i \in DOMAIN Get(TheGroup.ipAddress).ports |->
                       Get(TheGroup.ipAddress).ports[i].port] = PodPorts
               /\ Get(TheGroup.ipAddress).dnsNameLabel =
                      IF ThePod.annotations.dnsNameLabel # ""
                      THEN Some(ThePod.annotations.dnsNameLabel)
                      ELSE None

\* a pod that exposes ports and asks for a DNS name label, on a provider with
\* a subnet: the request has no IP address
C6_Witness ==
    /\ Translated
    /\ Len(PodPorts) > 0
    /\ ThePod.annotations.dnsNameLabel # ""
    /\ p.subnetName # ""
    /\ TheGroup.ipAddress = None

----------------------------------------------------------------------------
(* The service-account mount on Windows *)

RequestContainers == Range(TheGroup.containers) \cup Range(TheGroup.initContainers)
PodContainers == Range(ThePod.containers) \cup Range(ThePod.initContainers)

MountsPath(container, path) ==
    \E i \in DOMAIN container.volumeMounts : container.volumeMounts[i].mountPath = path
MountsVolume(container, name) ==
    \E i \in DOMAIN container.volumeMounts : container.volumeMounts[i].name = name
MountsVolumeAt(container, name, path) ==
    \E i \in DOMAIN container.volumeMounts :
        /\ container.volumeMounts[i].name = name
        /\ container.volumeMounts[i].mountPath = path

\* C7: on OS type Windows no container of the request, regular or init,
\* keeps a volume mount at the service-account mount path, and a volume whose
\* service-account mount was stripped and that no container of the request
\* mounts any more is not in the request's volume list.
C7_WindowsStripsServiceAccountMounts ==
    (Translated /\ EqualFold(p.operatingSystem, WindowsLiteral)) =>
        /\ \A container \in RequestContainers :
               ~MountsPath(container, serviceAccountSecretMountPath)
        /\ \A v \in DOMAIN ThePod.volumes :
               (/\ \E container \in PodContainers :
                       MountsVolumeAt(container, ThePod.volumes[v].name,
                                      serviceAccountSecretMountPath)
                /\ \A container \in RequestContainers :
                       ~MountsVolume(container, ThePod.volumes[v].name))
               => \A w \in DOMAIN TheGroup.volumes :
                      TheGroup.volumes[w].name # ThePod.volumes[v].name

NamesVolumeOf(container, volumes) ==
    \A i \in DOMAIN container.volumeMounts :
        \E v \in DOMAIN volumes : volumes[v].name = container.volumeMounts[i].name

\* C22: in the request of a pod whose volume mounts all name volumes of the
\* pod, every volume mount of every container and init container names a
\* volume of the request's volume list, on every OS type, Windows included.
C22_NoDanglingMount ==
    (Translated /\ \A container \in PodContainers : NamesVolumeOf(container, ThePod.volumes))
        => \A container \in RequestContainers : NamesVolumeOf(container, TheGroup.volumes)

\* the same for the regular containers of pods without init containers: what
\* fails without the init containers of C7
C22_NoDanglingMountOfRegularContainers ==
    (/\ Translated
     /\ ThePod.initContainers = <<>>
     /\ \A container \in PodContainers : NamesVolumeOf(container, ThePod.volumes))
        => \A container \in RequestContainers : NamesVolumeOf(container, TheGroup.volumes)

----------------------------------------------------------------------------
(* Image pull secrets *)

PullSecretRefs == ThePod.imagePullSecrets
Stored(name) == GetSecret(name, ThePod.namespace)
IsStored(name) == Stored(name).err = NoErr /\ Stored(name).secret # None
SecretOf(name) == Get(Stored(name).secret)
HasKnownType(name) ==
    SecretOf(name).type \in {SecretTypeDockercfg, SecretTypeDockerConfigJson}
SecretData(name) ==
    IF SecretOf(name).type = SecretTypeDockercfg THEN SecretOf(name).dockercfg
    ELSE SecretOf(name).dockerconfigjson
SecretEntries(name) == Get(SecretData(name)).entries

Colons(text) == Cardinality({i \in DOMAIN text : text[i] = ":"})

\* the translation steps of CreatePod other than the pull secrets succeed
StepsButSecretsOk ==
    /\ getContainers(p, ThePod).err = NoErr
    /\ getVolumes(ThePod).err = NoErr
    /\ getInitContainers(ThePod).err = NoErr

\* the registries of the entries of all referenced secrets, in order
ReferencedServers ==
    Flatten([r \in DOMAIN PullSecretRefs |->
                [i \in DOMAIN SecretEntries(PullSecretRefs[r]) |->
                    SecretEntries(PullSecretRefs[r])[i].server]])
SubmittedServers ==
    [i \in DOMAIN TheGroup.imageRegistryCredentials |->
        TheGroup.imageRegistryCredentials[i].server]

\* the failures C8 lists: the secret is missing (or cannot be looked up), is
\* of another type, holds malformed JSON or malformed base64 auth data (auth
\* that is not base64, or not the base64 of a user:password pair)
ListedFailure(name) ==
    \/ ~IsStored(name)
    \/ ~HasKnownType(name)
    \/ /\ SecretData(name) # None
       /\ \/ ~Get(SecretData(name)).wellFormed
          \/ \E i \in DOMAIN SecretEntries(name) :
                 /\ SecretEntries(name)[i].auth # None
                 /\ \/ ~Get(SecretEntries(name)[i].auth).wellFormed
                    \/ Colons(Get(SecretEntries(name)[i].auth).decoded) = 0

\* C8 as stated: CreatePod fails, submitting nothing, whenever a referenced
\* secret is missing, of another type, or holds malformed JSON or malformed
\* base64 auth data; otherwise the request has one registry credential per
\* registry entry of every referenced secret.
C8_PullSecretsFailOnlyAsListed ==
    (Called /\ StepsButSecretsOk) =>
        IF \E r \in DOMAIN PullSecretRefs : ListedFailure(PullSecretRefs[r])
        THEN err # NoErr /\ submitted = None
        ELSE /\ Translated
             /\ \A r \in DOMAIN PullSecretRefs : SecretData(PullSecretRefs[r]) # None
             /\ SubmittedServers = ReferencedServers

\* a legacy dockercfg entry gives no credential: it has no user name, and its
\* auth is absent, malformed base64, or not exactly user:password
DockercfgEntryFails(e) ==
    /\ e.username = <<>>
    /\ \/ e.auth = None
       \/ ~Get(e.auth).wellFormed
       \/ Colons(Get(e.auth).decoded) # 1

\* a dockerconfigjson entry gives no credential: the unmarshalling left it
\* without a user name
DockerConfigJsonEntryFails(e) == e.username = <<>>

SecretFails(name) ==
    \/ ~IsStored(name)
    \/ ~HasKnownType(name)
    \/ SecretData(name) = None
    \/ ~Get(SecretData(name)).wellFormed
    \/ IF SecretOf(name).type = SecretTypeDockercfg
       THEN \E i \in DOMAIN SecretEntries(name) :
                DockercfgEntryFails(SecretEntries(name)[i])
       ELSE \/ Len(SecretEntries(name)) = 0
            \/ \E i \in DOMAIN SecretEntries(name) :
                   DockerConfigJsonEntryFails(SecretEntries(name)[i])

\* C8: CreatePod fails, submitting nothing, whenever a referenced secret
\* cannot be looked up or is missing, is of another type than dockercfg and
\* dockerconfigjson, lacks the data key of its type, holds data that does not
\* unmarshal, is a dockerconfigjson without registry entries, or has an entry
\* that gives no user name (a dockercfg entry without username whose auth is
\* absent, malformed base64 or not exactly user:password; a dockerconfigjson
\* entry without username); otherwise the request has one registry
\* credential per registry entry of every referenced secret, in the order of
\* the references. A dockercfg entry with a username is taken as it is,
\* whatever its auth holds.
C8_PullSecretsFailOrYieldAll ==
    (Called /\ StepsButSecretsOk) =>
        IF \E r \in DOMAIN PullSecretRefs : SecretFails(PullSecretRefs[r])
        THEN err # NoErr /\ submitted = None
        ELSE /\ Translated
             /\ SubmittedServers = ReferencedServers

\* a two-entry dockercfg secret and a one-entry dockerconfigjson secret gave
\* three credentials
C8_Witness ==
    /\ Translated
    /\ PullSecretRefs = <<"cfg_two", "json_auth">>
    /\ Len(TheGroup.imageRegistryCredentials) = 3

----------------------------------------------------------------------------
(* Probes *)

ProbeKinds == {"liveness", "readiness"}
PodProbe(c, kind) ==
    IF kind = "liveness" THEN ThePod.containers[c].livenessProbe
    ELSE ThePod.containers[c].readinessProbe
GroupProbe(c, kind) ==
    IF kind = "liveness" THEN TheGroup.containers[c].livenessProbe
    ELSE TheGroup.containers[c].readinessProbe

HasExec(probe) == probe.exec # None
HasHTTPGet(probe) == probe.httpGet # None
HasNamedPort(probe) == HasHTTPGet(probe) /\ Get(probe.httpGet).port.type = "String"

\* the positions of the ports container c declares under the probe's port name
PortsNamed(c, probe) ==
    {i \in DOMAIN SliceOf(ThePod.containers[c].ports) :
        SliceOf(ThePod.containers[c].ports)[i].name = Get(probe.httpGet).port.strVal}

TimingOf(probe) ==
    <<probe.initialDelaySeconds, probe.failureThreshold, probe.successThreshold,
      probe.timeoutSeconds, probe.periodSeconds>>

TranslatedAsGiven(c, probe, aciProbe) ==
    /\ HasExec(probe) # HasHTTPGet(probe)
    /\ HasExec(probe) <=> aciProbe.exec # None
    /\ HasHTTPGet(probe) <=> aciProbe.httpGet # None
    /\ HasExec(probe) => Get(aciProbe.exec).command = Get(probe.exec).command
    /\ HasNamedPort(probe) =>
           /\ PortsNamed(c, probe) # {}
           /\ Get(aciProbe.httpGet).port =
                  SliceOf(ThePod.containers[c].ports)[MinOf(PortsNamed(c, probe))]
                      .containerPort
    /\ (HasHTTPGet(probe) /\ ~HasNamedPort(probe)) =>
           Get(aciProbe.httpGet).port = Get(probe.httpGet).port.intVal
    /\ TimingOf(aciProbe) = TimingOf(probe)

\* C9: a probe translates only when exactly one of exec and httpGet is
\* present, neither or both fails CreatePod; an httpGet probe with a named
\* port gets the container port of the container's (first) declared port of
\* that name, and fails CreatePod when the container declares no port of that
\* name; the five timing and threshold fields are carried through unchanged.
C9_ProbeTranslation ==
    Called =>
        \A c \in DOMAIN ThePod.containers : \A kind \in ProbeKinds :
            PodProbe(c, kind) # None =>
                /\ (HasExec(Get(PodProbe(c, kind))) = HasHTTPGet(Get(PodProbe(c, kind))))
                       => (err # NoErr /\ submitted = None)
                /\ (/\ HasNamedPort(Get(PodProbe(c, kind)))
                    /\ PortsNamed(c, Get(PodProbe(c, kind))) = {})
                       => (err # NoErr /\ submitted = None)
                /\ Translated =>
                       /\ GroupProbe(c, kind) # None
                       /\ TranslatedAsGiven(c, Get(PodProbe(c, kind)),
                                            Get(GroupProbe(c, kind)))

\* an httpGet liveness probe on the port named metrics, which two declared
\* ports carry: the translated probe has the first one's container port
C9_Witness ==
    /\ Translated
    /\ PodProbe(1, "liveness") # None
    /\ HasNamedPort(Get(PodProbe(1, "liveness")))
    /\ Cardinality(PortsNamed(1, Get(PodProbe(1, "liveness")))) = 2
    /\ Get(Get(GroupProbe(1, "liveness")).httpGet).port = 9090

----------------------------------------------------------------------------
(* Init containers *)

\* what ACI init containers do not support: ports, resource requests, resource
\* limits and probes, declared at all; and args without a command
Unsupported(initContainer) ==
    \/ initContainer.ports # None
    \/ initContainer.resources.requests # None
    \/ initContainer.resources.limits # None
    \/ initContainer.livenessProbe # None
    \/ initContainer.readinessProbe # None
    \/ Len(initContainer.command) = 0 /\ Len(initContainer.args) > 0

\* the translation steps CreatePod takes before the init containers succeed
StepsBeforeInitOk ==
    /\ getContainers(p, ThePod).err = NoErr
    /\ getImagePullSecrets(ThePod).err = NoErr
    /\ getVolumes(ThePod).err = NoErr

InitDefinitionOf(initContainer, definition) ==
    /\ DOMAIN definition =
           {"name", "image", "command", "volumeMounts", "environmentVariables"}
    /\ definition.name = initContainer.name
    /\ definition.image = initContainer.image
    /\ definition.command = initContainer.command \o initContainer.args
    /\ [i \in DOMAIN definition.volumeMounts |->
           <<definition.volumeMounts[i].name, definition.volumeMounts[i].mountPath>>]
         = [i \in DOMAIN initContainer.volumeMounts |->
               <<initContainer.volumeMounts[i].name,
                 initContainer.volumeMounts[i].mountPath>>]
    /\ [i \in DOMAIN definition.environmentVariables |->
           definition.environmentVariables[i].name]
         = [i \in DOMAIN SelectSeq(initContainer.env, LAMBDA e : e.value # "") |->
               SelectSeq(initContainer.env, LAMBDA e : e.value # "")[i].name]

\* C10: when some init container declares ports, resource requests, resource
\* limits, a liveness probe or a readiness probe, or args without a command,
\* CreatePod fails with an InvalidInput error and no init-container list
\* reaches a request; when none does, the request has exactly one
\* init-container definition per declared init container, in order, made of
\* its name, image, command followed by args, volume mounts and environment
\* variables and nothing else.
C10_InitContainers ==
    (Called /\ StepsBeforeInitOk) =>
        IF \E i \in DOMAIN ThePod.initContainers : Unsupported(ThePod.initContainers[i])
        THEN /\ err.kind = "InvalidInput"
             /\ submitted = None
        ELSE /\ Translated
             /\ Len(TheGroup.initContainers) = Len(ThePod.initContainers)
             /\ \A i \in DOMAIN ThePod.initContainers :
                    InitDefinitionOf(ThePod.initContainers[i], TheGroup.initContainers[i])

\* the second of two init containers declares an empty list of ports:
\* CreatePod is refused
C10_Witness ==
    /\ Called
    /\ Len(ThePod.initContainers) = 2
    /\ ThePod.initContainers[2].ports = Some(<<>>)
    /\ ~Unsupported(ThePod.initContainers[1])
    /\ err.kind = "InvalidInput"
    /\ submitted = None

----------------------------------------------------------------------------
(* Properties of CreatePod: environment variables *)

\* the variables a container declares with a non-empty value, in order
DeclaredNonEmpty(container) == SelectSeq(container.env, LAMBDA e : e.value # "")
FromSecret(e) == e.valueFrom # None /\ Get(e.valueFrom).secretKeyRef

\* the emitted list is the declared list, variable by
\* variable: secret-sourced ones in the secure field only, the others in the
\* plain field only
EmittedAsDeclared(declared, emitted) ==
    /\ Len(emitted) = Len(declared)
    /\ \A k \in DOMAIN declared :
           /\ emitted[k].name = declared[k].name
           /\ IF FromSecret(declared[k])
              THEN /\ emitted[k].secureValue = Some(declared[k].value)
                   /\ emitted[k].value = None
              ELSE /\ emitted[k].value = Some(declared[k].value)
                   /\ emitted[k].secureValue = None

\* C11: for every container and init container the translated
\* environment-variable list holds exactly the declared variables whose value
\* is non-empty, in declaration order; a variable sourced from a secret
\* reference has its value in the secure field and no plain value, every other
\* variable has a plain value and no secure value.
C11_EnvironmentVariables ==
    Translated =>
        /\ \A c \in DOMAIN ThePod.containers :
               EmittedAsDeclared(DeclaredNonEmpty(ThePod.containers[c]),
                                 TheGroup.containers[c].environmentVariables)
        /\ \A i \in DOMAIN ThePod.initContainers :
               EmittedAsDeclared(DeclaredNonEmpty(ThePod.initContainers[i]),
                                 TheGroup.initContainers[i].environmentVariables)

\* a container declaring an empty variable and then a secret-sourced one got
\* the secret-sourced one alone, in the secure field
C11_Witness ==
    /\ Translated
    /\ Len(ThePod.containers[1].env) = 2
    /\ ThePod.containers[1].env[1].value = ""
    /\ FromSecret(ThePod.containers[1].env[2])
    /\ Len(TheGroup.containers[1].environmentVariables) = 1
    /\ TheGroup.containers[1].environmentVariables[1].secureValue = Some("s3cret")
    /\ TheGroup.containers[1].environmentVariables[1].value = None

----------------------------------------------------------------------------
(* Model of GetPods and ListActivePods *)

\* a *string: the variable it points to, and the string held there
Pointer(addr, val) == Some([addr |-> addr, val |-> val])
\* &p.nodeName
AddressOfNodeName(prov) == Pointer("p.nodeName", prov.nodeName)
\* p == q on pointers: both nil, or both the address of one variable
SamePointer(a, b) ==
    \/ a = None /\ b = None
    \/ a # None /\ b # None /\ Get(a).addr = Get(b).addr

\* validation.ValidateContainerGroup and ACIProvider.containerGroupToPod are
\* declared outside aci.go: what they answer for a group is a property of the
\* group
ValidateContainerGroup(cg) ==
    IF cg.valid THEN NoErr ELSE Errorf("invalid container group")

containerGroupToPod(cg) ==
    IF cg.convertible
    THEN [pod |-> Some([namespace |-> cg.namespace, name |-> cg.podName]), err |-> NoErr]
    ELSE [pod |-> None, err |-> Errorf("cannot convert container group")]

\* one turn of the loop of GetPods over the groups listed: the pods to append.
\* The result of ValidateContainerGroup is dropped and the err tested after
\* it is the nil err of the listing call, so nothing returns here.
getPodsAppend(prov, cg, outerErr, converted) ==
    IF outerErr # NoErr THEN <<>>
    ELSE IF ~SamePointer(cg.tags.NodeName, AddressOfNodeName(prov)) THEN <<>>
    ELSE IF converted.err # NoErr THEN <<>>
    ELSE <<Get(converted.pod)>>

RECURSIVE getPodsFrom(_, _, _)
getPodsFrom(prov, list, k) ==
    IF k > Len(list) THEN <<>>
    ELSE getPodsAppend(prov, list[k], NoErr, containerGroupToPod(list[k]))
             \o getPodsFrom(prov, list, k + 1)

\* GetPods, given what GetContainerGroupListResult answered
getPods(prov, res) ==
    IF res.err # NoErr THEN [pods |-> None, err |-> res.err]
    ELSE IF res.list = None THEN [pods |-> None, err |-> NoErr]
    ELSE [pods |-> Some(getPodsFrom(prov, Get(res.list), 1)), err |-> NoErr]

PodIdentifier(pd) == [namespace |-> pd.namespace, name |-> pd.name]

RECURSIVE identifiersFrom(_, _)
identifiersFrom(providerPods, k) ==
    IF k > Len(providerPods) THEN <<>>
    ELSE <<PodIdentifier(providerPods[k])>> \o identifiersFrom(providerPods, k + 1)

\* ListActivePods, given what GetPods returned
listActivePods(got) ==
    IF got.err # NoErr THEN [ids |-> None, err |-> got.err]
    ELSE [ids |-> Some(identifiersFrom(SliceOf(got.pods), 1)), err |-> NoErr]

GetPodsReturns(res, got) ==
    /\ listCall' = "GetPods"
    /\ cgs' = Some(res)
    /\ pods' = got.pods
    /\ podsIdentifiers' = None
    /\ listErr' = got.err

GetPods(res) ==
    /\ listCall = ""
    /\ GetPodsReturns(res, getPods(p, res))
    /\ UNCHANGED <<p, createVars, otherVars, execVars, trackVars>>

ListActivePodsReturns(res, got, ids) ==
    /\ listCall' = "ListActivePods"
    /\ cgs' = Some(res)
    /\ pods' = got.pods
    /\ podsIdentifiers' = ids.ids
    /\ listErr' = ids.err

ListActivePodsOf(res, got) == ListActivePodsReturns(res, got, listActivePods(got))

ListActivePods(res) ==
    /\ listCall = ""
    /\ ListActivePodsOf(res, getPods(p, res))
    /\ UNCHANGED <<p, createVars, otherVars, execVars, trackVars>>

\* the caller has the result of its listing call
ListReturn ==
    /\ listCall # ""
    /\ listCall' = ""
    /\ cgs' = None
    /\ pods' = None
    /\ podsIdentifiers' = None
    /\ listErr' = NoErr
    /\ UNCHANGED <<p, createVars, otherVars, execVars, trackVars>>

(* The container groups the backend can list *)

MaxGroups == 3

\* the NodeName tag of the k-th group listed: a string the client decoded
\* into its own memory, or no tag at all
TagAddresses == <<"cgs[0].Tags.NodeName", "cgs[1].Tags.NodeName", "cgs[2].Tags.NodeName",
                  "cgs[3].Tags.NodeName">>

NodeTags(k) ==
    {Pointer(TagAddresses[k], "vk"), Pointer(TagAddresses[k], "other"), None}

PodNames == <<"pod-1", "pod-2", "pod-3", "pod-4">>

ContainerGroup(k, tag, convertible, valid) ==
    [name |-> "default-" \o PodNames[k], namespace |-> "default", podName |-> PodNames[k],
     tags |-> [NodeName |-> tag], convertible |-> convertible, valid |-> valid]

ContainerGroups(k) ==
    {ContainerGroup(k, tag, convertible, valid) :
        tag \in NodeTags(k), convertible \in BOOLEAN, valid \in BOOLEAN}

RECURSIVE ContainerGroupListsOf(_)
ContainerGroupListsOf(n) ==
    IF n = 0 THEN {<<>>}
    ELSE {Append(l, g) : l \in ContainerGroupListsOf(n - 1), g \in ContainerGroups(n)}

ContainerGroupLists == UNION {ContainerGroupListsOf(n) : n \in 0..MaxGroups}

ListResults ==
    {[list |-> None, err |-> Errorf("list failed")], [list |-> None, err |-> NoErr]}
    \cup {[list |-> Some(l), err |-> NoErr] : l \in ContainerGroupLists}

ListProvider == Provider(OS_Linux, "", <<>>, None)

ListInit ==
    /\ p = ListProvider
    /\ pod = None
    /\ err = NoErr
    /\ submitted = None
    /\ createCalls = 0
    /\ NoListing
    /\ NoExec
    /\ NoOthers
    /\ NoTracking

ListNext ==
    \/ \E res \in ListResults : GetPods(res)
    \/ \E res \in ListResults : ListActivePods(res)
    \/ ListReturn

ListSpec == ListInit /\ [][ListNext]_vars

----------------------------------------------------------------------------
(* Properties of GetPods and ListActivePods *)

\* a listing call has run on a list the backend gave without error
Listed == SliceOf(Get(cgs).list)
ListingDone == listCall # "" /\ Get(cgs).err = NoErr /\ Get(cgs).list # None
ReturnedPods == SliceOf(pods)

\* the group carries a NodeName tag with the name of this provider's node
OnThisNode(cg) ==
    cg.tags.NodeName # None /\ Get(cg.tags.NodeName).val = p.nodeName
OnOtherNode(cg) ==
    cg.tags.NodeName # None /\ Get(cg.tags.NodeName).val # p.nodeName
Translates(cg) == containerGroupToPod(cg).err = NoErr
PodOfGroup(cg) == Get(containerGroupToPod(cg).pod)
IsReturned(cg) == \E j \in DOMAIN ReturnedPods : ReturnedPods[j] = PodOfGroup(cg)

\* C18: a container group that fails to translate into a pod is skipped and
\* does not abort the listing: whatever the position of the failing group in
\* the list, GetPods returns no whole-list error and still returns the pods
\* of all the remaining groups (those of this node).
C18_FailingGroupIsSkipped ==
    ListingDone /\ (\E k \in DOMAIN Listed : ~Translates(Listed[k])) =>
        /\ listErr = NoErr
        /\ \A k \in DOMAIN Listed :
               Translates(Listed[k]) /\ OnThisNode(Listed[k]) => IsReturned(Listed[k])

\* C19: GetPods returns a pod for every container group whose NodeName tag
\* equals this provider's node name and that translates, and for no group
\* tagged with another node; ListActivePods returns exactly the (namespace,
\* name) identifiers of those pods.
C19_PodsOfThisNode ==
    ListingDone =>
        /\ listErr = NoErr
        /\ \A k \in DOMAIN Listed :
               Translates(Listed[k]) /\ OnThisNode(Listed[k]) => IsReturned(Listed[k])
        /\ \A k \in DOMAIN Listed :
               OnOtherNode(Listed[k]) => ~IsReturned(Listed[k])
        /\ listCall = "ListActivePods" =>
               /\ podsIdentifiers # None
               /\ Len(Get(podsIdentifiers)) = Len(ReturnedPods)
               /\ \A j \in DOMAIN ReturnedPods :
                      /\ Get(podsIdentifiers)[j].namespace = ReturnedPods[j].namespace
                      /\ Get(podsIdentifiers)[j].name = ReturnedPods[j].name

----------------------------------------------------------------------------
(* Model of RunInContainer *)

Canceled == Errorf("context canceled")
\* ctx.Err()
CtxErr(done) == IF done THEN Canceled ELSE NoErr
\* the deferred out.Close()
CloseOut(o) == IF o = "nil" THEN "nil" ELSE "closed"

\* the calls RunInContainer makes before it streams, any of which can fail
ExecSteps == <<"GetContainerGroupInfo", "ExecuteContainerCommand", "Dial", "WriteMessage">>
ExecFailures == {""} \cup Range(ExecSteps)

\* RunInContainer up to the start of the stdin goroutine. A failure before the
\* password is written returns the error; c.Close() is deferred only after the
\* password went out, so a failed WriteMessage leaves the dialed connection
\* open.
RunInContainer(attach, fail) ==
    /\ runPc = ""
    /\ IF fail # ""
       THEN /\ runPc' = "returned"
            /\ runErr' = Errorf(fail)
            /\ conn' = IF fail = "WriteMessage" THEN "open" ELSE "nil"
            /\ out' = CloseOut(IF attach.stdout THEN "open" ELSE "nil")
            /\ UNCHANGED <<sent, stdin, inPc>>
       ELSE /\ conn' = "open"
            /\ sent' = <<"password">>
            /\ out' = IF attach.stdout THEN "open" ELSE "nil"
            /\ stdin' = IF attach.stdin THEN "idle" ELSE "nil"
            /\ inPc' = IF attach.stdin THEN "select" ELSE ""
            /\ runPc' = IF attach.stdout THEN "select" ELSE "return"
            /\ runErr' = NoErr
    /\ UNCHANGED <<ctxDone, incoming, p, createVars, otherVars, listVars, trackVars>>

\* the select of the output loop: `break` on ctx.Done() leaves the select, not
\* the for, so both branches go on to c.NextReader()
OutSelect ==
    /\ runPc = "select"
    /\ runPc' = "NextReader"
    /\ UNCHANGED <<inPc, ctxDone, conn, sent, incoming, stdin, out, runErr,
                   p, createVars, otherVars, listVars, trackVars>>

\* c.NextReader() blocks until a message is there or the connection failed
NextReader ==
    /\ runPc = "NextReader"
    /\ \/ /\ incoming
          /\ incoming' = FALSE
          /\ runPc' = "Copy"
       \/ /\ ~incoming
          /\ conn = "failed"
          /\ incoming' = incoming
          /\ runPc' = "return"
    /\ UNCHANGED <<inPc, ctxDone, conn, sent, stdin, out, runErr, p, createVars, otherVars, listVars, trackVars>>

\* io.Copy(out, cr)
Copy(ok) ==
    /\ runPc = "Copy"
    /\ runPc' = IF ok THEN "select" ELSE "return"
    /\ UNCHANGED <<inPc, ctxDone, conn, sent, incoming, stdin, out, runErr,
                   p, createVars, otherVars, listVars, trackVars>>

\* return ctx.Err(), with the deferred c.Close() and out.Close()
RunReturn ==
    /\ runPc = "return"
    /\ runPc' = "returned"
    /\ runErr' = CtxErr(ctxDone)
    /\ conn' = "closed"
    /\ out' = CloseOut(out)
    /\ UNCHANGED <<inPc, ctxDone, sent, incoming, stdin, p, createVars, otherVars, listVars, trackVars>>

\* the stdin goroutine: the select at the top of its loop
InSelect ==
    /\ inPc = "select"
    /\ inPc' = IF ctxDone THEN "done" ELSE "Read"
    /\ UNCHANGED <<runPc, ctxDone, conn, sent, incoming, stdin, out, runErr,
                   p, createVars, otherVars, listVars, trackVars>>

\* in.Read(msg) blocks until there is input or the input ended
InRead ==
    /\ inPc = "Read"
    /\ \/ /\ stdin = "data"
          /\ stdin' = "idle"
          /\ inPc' = "WriteMessage"
       \/ /\ stdin = "EOF"
          /\ stdin' = stdin
          /\ inPc' = "done"
    /\ UNCHANGED <<runPc, ctxDone, conn, sent, incoming, out, runErr, p, createVars, otherVars, listVars, trackVars>>

\* c.WriteMessage(websocket.BinaryMessage, msg[:n])
InWriteMessage ==
    /\ inPc = "WriteMessage"
    /\ IF conn = "open"
       THEN /\ sent' = Append(sent, "input")
            /\ inPc' = "select"
       ELSE /\ sent' = sent
            /\ inPc' = "done"
    /\ UNCHANGED <<runPc, ctxDone, conn, incoming, stdin, out, runErr, p, createVars, otherVars, listVars, trackVars>>

(* What is around the call: the context, the peer, the user at stdin *)

MaxSent == 3

CancelContext ==
    /\ ~ctxDone
    /\ ctxDone' = TRUE
    /\ UNCHANGED <<runPc, inPc, conn, sent, incoming, stdin, out, runErr,
                   p, createVars, otherVars, listVars, trackVars>>

PeerSends ==
    /\ conn = "open"
    /\ ~incoming
    /\ incoming' = TRUE
    /\ UNCHANGED <<runPc, inPc, ctxDone, conn, sent, stdin, out, runErr,
                   p, createVars, otherVars, listVars, trackVars>>

PeerCloses ==
    /\ conn = "open"
    /\ conn' = "failed"
    /\ UNCHANGED <<runPc, inPc, ctxDone, sent, incoming, stdin, out, runErr,
                   p, createVars, otherVars, listVars, trackVars>>

StdinData ==
    /\ stdin = "idle"
    /\ Len(sent) < MaxSent
    /\ stdin' = "data"
    /\ UNCHANGED <<runPc, inPc, ctxDone, conn, sent, incoming, out, runErr,
                   p, createVars, otherVars, listVars, trackVars>>

StdinEOF ==
    /\ stdin = "idle"
    /\ stdin' = "EOF"
    /\ UNCHANGED <<runPc, inPc, ctxDone, conn, sent, incoming, out, runErr,
                   p, createVars, otherVars, listVars, trackVars>>

AttachIOs == [stdin : BOOLEAN, stdout : BOOLEAN]

ExecInit == ListInit

ExecNext ==
    \/ \E attach \in AttachIOs, fail \in ExecFailures : RunInContainer(attach, fail)
    \/ OutSelect
    \/ NextReader
    \/ \E ok \in BOOLEAN : Copy(ok)
    \/ RunReturn
    \/ InSelect
    \/ InRead
    \/ InWriteMessage
    \/ CancelContext
    \/ PeerSends
    \/ PeerCloses
    \/ StdinData
    \/ StdinEOF

\* RunInContainer and its goroutine are scheduled whenever they can take a
\* step; the peer, the user and the owner of the context owe nothing
ExecFairness ==
    /\ WF_vars(OutSelect)
    /\ WF_vars(NextReader)
    /\ WF_vars(\E ok \in BOOLEAN : Copy(ok))
    /\ WF_vars(RunReturn)
    /\ WF_vars(InSelect)
    /\ WF_vars(InRead)
    /\ WF_vars(InWriteMessage)

ExecSpec == ExecInit /\ [][ExecNext]_vars /\ ExecFairness

----------------------------------------------------------------------------
(* Properties of RunInContainer *)

Streaming == runPc \in {"select", "NextReader", "Copy", "return"}
StreamEOF == conn = "failed" \/ stdin = "EOF"
BothDirectionsDone == runPc = "returned" /\ inPc \in {"", "done"}

\* the token is the first message written, before any input
TokenFirst ==
    \A i \in DOMAIN sent : IF i = 1 THEN sent[i] = "password" ELSE sent[i] = "input"

\* C20: on the exec stream the authentication token is the first frame sent,
\* before any input bytes, and once the context is cancelled or the stream
\* reaches EOF both copy directions eventually terminate and RunInContainer
\* returns.
C20_ExecStream ==
    /\ []TokenFirst
    /\ (Streaming /\ (ctxDone \/ StreamEOF)) ~> BothDirectionsDone

----------------------------------------------------------------------------
(* Model of the pod status: GetPodStatus, GetPod, deleteContainerGroup *)

statusReasonPodDeleted == "NotFound"
statusMessagePodDeleted == "The pod may have been deleted from the provider"
containerExitCodePodDeleted == 0

NotFound(m) == [kind |-> "NotFound", msg |-> m]
\* errdefs.IsNotFound
IsNotFound(e) == e.kind = "NotFound"

\* p.azClientsAPIs.GetContainerGroupInfo: the group the backend holds under
\* the name, a not-found error when it holds none, or a failure of the call
GetContainerGroupInfo(held, id, fails) ==
    IF fails THEN [cg |-> None, err |-> Errorf("backend call failed")]
    ELSE IF held[id] = None THEN [cg |-> None, err |-> NotFound("container group not found")]
    ELSE [cg |-> held[id], err |-> NoErr]

\* ACIProvider.getPodStatusFromContainerGroup is declared outside aci.go: one
\* container status per container of the group, from the state the backend
\* reports for it
containerStatusOf(ct) ==
    [name |-> ct.name,
     containerID |-> "aci://" \o ct.name,
     state |->
         [running |-> IF ct.state = "Running"
                      THEN Some([startedAt |-> ct.startTime]) ELSE None,
          terminated |-> IF ct.state = "Terminated"
                         THEN Some([exitCode |-> ct.exitCode, reason |-> ct.detail,
                                    message |-> "", finishedAt |-> ct.finishTime,
                                    startedAt |-> ct.startTime,
                                    containerID |-> "aci://" \o ct.name])
                         ELSE None]]

getPodStatusFromContainerGroup(cg) ==
    IF cg.convertible
    THEN [status |-> Some([containerStatuses |-> MapSeq(cg.containers, containerStatusOf)]),
          err |-> NoErr]
    ELSE [status |-> None, err |-> Errorf("cannot convert container group")]

\* GetPodStatus with the status stamped with the cycle it was fetched in
GetPodStatusStamped(got) ==
    IF got.err # NoErr THEN [status |-> None, err |-> got.err]
    ELSE IF ValidateContainerGroup(Get(got.cg)) # NoErr
    THEN [status |-> None, err |-> ValidateContainerGroup(Get(got.cg))]
    ELSE IF ~Get(got.cg).convertible THEN getPodStatusFromContainerGroup(Get(got.cg))
    ELSE [status |-> Some([containerStatuses |->
                               MapSeq(Get(got.cg).containers, containerStatusOf),
                           observedAt |-> cycle]),
          err |-> NoErr]

\* GetPodStatus with the validation error of the fetched group ignored
GetPodStatusSkipsValidation(got) ==
    IF got.err # NoErr THEN [status |-> None, err |-> got.err]
    ELSE getPodStatusFromContainerGroup(Get(got.cg))

\* GetPodStatus with every error of the fetch reported as a plain error
GetPodStatusHidesNotFound(got) ==
    IF got.err # NoErr THEN [status |-> None, err |-> Errorf(got.err.msg)]
    ELSE IF ValidateContainerGroup(Get(got.cg)) # NoErr
    THEN [status |-> None, err |-> ValidateContainerGroup(Get(got.cg))]
    ELSE getPodStatusFromContainerGroup(Get(got.cg))

\* GetPodStatus, given what GetContainerGroupInfo answered
GetPodStatus(got) ==
    IF got.err # NoErr THEN [status |-> None, err |-> got.err]
    ELSE IF ValidateContainerGroup(Get(got.cg)) # NoErr
    THEN [status |-> None, err |-> ValidateContainerGroup(Get(got.cg))]
    ELSE getPodStatusFromContainerGroup(Get(got.cg))

FetchPodStatus(got) == GetPodStatus(got)

\* GetPod that returns neither the pod nor the error
GetPodDropsResult(got) == [pod |-> None, err |-> NoErr]

\* GetPod, given what GetContainerGroupInfo answered
GetPod(got) ==
    IF got.err # NoErr THEN [pod |-> None, err |-> got.err]
    ELSE IF ValidateContainerGroup(Get(got.cg)) # NoErr
    THEN [pod |-> None, err |-> ValidateContainerGroup(Get(got.cg))]
    ELSE containerGroupToPod(Get(got.cg))

\* the same with the start time not carried over
podDeletedContainerRestamped(cs) ==
    IF cs.state.running = None THEN cs
    ELSE [cs EXCEPT !.state =
              [running |-> None,
               terminated |-> Some([exitCode |-> containerExitCodePodDeleted,
                                    reason |-> statusReasonPodDeleted,
                                    message |-> statusMessagePodDeleted,
                                    finishedAt |-> "now",
                                    startedAt |-> "now",
                                    containerID |-> cs.containerID])]]

\* the function deleteContainerGroup hands to UpdatePodStatus, on one
\* container status: a running container becomes a terminated one
podDeletedContainer(cs) ==
    IF cs.state.running = None THEN cs
    ELSE [cs EXCEPT !.state =
              [running |-> None,
               terminated |-> Some([exitCode |-> containerExitCodePodDeleted,
                                    reason |-> statusReasonPodDeleted,
                                    message |-> statusMessagePodDeleted,
                                    finishedAt |-> "now",
                                    startedAt |-> Get(cs.state.running).startedAt,
                                    containerID |-> cs.containerID])]]

podDeleted(podStatus) ==
    [podStatus EXCEPT !.containerStatuses = MapSeq(podStatus.containerStatuses, podDeletedContainer)]

\* PodsTracker.UpdatePodStatus is declared outside aci.go: it applies the
\* function it is given to the status the orchestrator holds for the pod, and
\* answers not-found when the orchestrator holds no such pod
UpdatePodStatus(loc, id, fails) ==
    IF fails THEN [local |-> loc, err |-> Errorf("status update failed")]
    ELSE IF loc[id] = None THEN [local |-> loc, err |-> NotFound("pod not found")]
    ELSE [local |-> [loc EXCEPT ![id] = Some(podDeleted(Get(loc[id])))], err |-> NoErr]

\* deleteContainerGroup after a successful DeleteContainerGroup: the status
\* update is attempted only when there is a tracker, and its error is logged
deleteContainerGroupUpdate(trk, loc, id, fails) ==
    IF trk # None THEN UpdatePodStatus(loc, id, fails) ELSE [local |-> loc, err |-> NoErr]

DeletePodReturns(id, backendErr, upd) ==
    IF backendErr # NoErr
    THEN /\ deleted' = Some([id |-> id, backendErr |-> backendErr, updateErr |-> NoErr,
                             err |-> backendErr])
         /\ UNCHANGED <<local, backend>>
    ELSE /\ deleted' = Some([id |-> id, backendErr |-> NoErr, updateErr |-> upd.err,
                             err |-> NoErr])
         /\ backend' = [backend EXCEPT ![id] = None]
         /\ local' = upd.local

\* DeletePod, given what DeleteContainerGroup answers and whether the status
\* update goes through
DeletePod(id, backendErr, fails) ==
    /\ deleted = None
    /\ DeletePodReturns(id, backendErr, deleteContainerGroupUpdate(tracker, local, id, fails))
    /\ UNCHANGED <<tracker, trackPc, queue, entry, fingerprint, cycle, calls, inflight, polled, snapshot,
                   notified, getPodPc, gotPod>>
    /\ UNCHANGED <<p, createVars, otherVars, listVars, execVars>>

\* GetPod: the call is made, and later returns
GetPodCall(id) ==
    /\ getPodPc = None
    /\ gotPod = None
    /\ getPodPc' = Some(id)
    /\ UNCHANGED <<tracker, trackPc, queue, entry, fingerprint, cycle, calls, inflight, polled, snapshot,
                   notified, local, backend, deleted, gotPod>>
    /\ UNCHANGED <<p, createVars, otherVars, listVars, execVars>>

GetPodReturns(id, got, r) ==
    /\ gotPod' = Some([id |-> id, got |-> got, pod |-> r.pod, err |-> r.err])
    /\ getPodPc' = None

GetPodOf(id, got) == GetPodReturns(id, got, GetPod(got))

GetPodReturn(fails) ==
    /\ getPodPc # None
    /\ GetPodOf(Get(getPodPc), GetContainerGroupInfo(backend, Get(getPodPc), fails))
    /\ UNCHANGED <<tracker, trackPc, queue, entry, fingerprint, cycle, calls, inflight, polled, snapshot,
                   notified, local, backend, deleted>>
    /\ UNCHANGED <<p, createVars, otherVars, listVars, execVars>>

\* NotifyPods sets p.tracker and starts the tracker's loop; the orchestrator
\* calls it once
NotifyPods ==
    /\ tracker = None
    /\ tracker' = Some([updateCb |-> "notifierCb", handler |-> "p"])
    /\ trackPc' = "idle"
    /\ UNCHANGED <<queue, entry, fingerprint, cycle, calls, inflight, polled, snapshot,
                   notified, local, backend, deleted, getPodPc, gotPod>>
    /\ UNCHANGED <<p, createVars, otherVars, listVars, execVars>>

----------------------------------------------------------------------------
(* Model of the tracker's loop, which is declared outside aci.go *)

MaxCycles == 3

\* the status changed when it is not the last one known
statusChanged(fp, status) == fp # Some(status)

\* the status given for a pod that is gone: what was last known, with every
\* running container terminated
notFoundStatus(fp) ==
    IF fp = None THEN [containerStatuses |-> <<>>] ELSE podDeleted(Get(fp))

\* what a poll does for one identifier, given what FetchPodStatus returned:
\* the status to give the callback if any, the fingerprint and the entry
pollOutcome(fp, r) ==
    IF r.err = NoErr /\ statusChanged(fp, Get(r.status))
    THEN [notify |-> r.status, fingerprint |-> r.status, entry |-> "Tracked"]
    ELSE IF r.err # NoErr /\ IsNotFound(r.err)
    THEN [notify |-> Some(notFoundStatus(fp)), fingerprint |-> None, entry |-> "untracked"]
    ELSE [notify |-> None, fingerprint |-> fp, entry |-> "Tracked"]

\* the entries after the identifiers the orchestrator expects and the tracker
\* does not know yet got one
entriesWith(ent, loc) ==
    [id \in Ids |-> IF ent[id] = "Unknown" /\ loc[id] # None THEN "Tracked" ELSE ent[id]]

trackedIn(ent) == SelectSeq(Identifiers, LAMBDA id : ent[id] = "Tracked")

\* a cycle may start when the loop is between cycles and the context is live
canStartAnytime(pc, done) == pc \in {"idle", "next", "fetch"} /\ ~done
canStart(pc, done) == pc = "idle" /\ ~done

StartCycleWith(ent) ==
    /\ entry' = ent
    /\ queue' = trackedIn(ent)
    /\ trackPc' = IF trackedIn(ent) = <<>> THEN "idle" ELSE "next"
    /\ cycle' = cycle + 1
    /\ calls' = [id \in Ids |-> 0]

StartCycle ==
    /\ canStart(trackPc, ctxDone)
    /\ cycle < MaxCycles
    /\ StartCycleWith(entriesWith(entry, local))
    /\ UNCHANGED <<tracker, fingerprint, inflight, polled, snapshot, notified, local, backend, deleted,
                   getPodPc, gotPod>>
    /\ UNCHANGED <<p, createVars, otherVars, listVars, execVars>>

\* the fetch of the next identifier of the cycle is issued
FetchStart ==
    /\ trackPc = "next"
    /\ trackPc' = "fetch"
    /\ inflight' = [inflight EXCEPT ![Head(queue)] = @ + 1]
    /\ UNCHANGED <<tracker, queue, entry, fingerprint, cycle, calls, polled, snapshot, notified, local,
                   backend, deleted, getPodPc, gotPod>>
    /\ UNCHANGED <<p, createVars, otherVars, listVars, execVars>>

\* the callback, when there is a status to give
Callback(id, o) ==
    IF o.notify = None
    THEN UNCHANGED <<notified, calls, local>>
    ELSE /\ notified' = [notified EXCEPT ![id] = [count |-> @.count + 1, status |-> o.notify]]
         /\ calls' = [calls EXCEPT ![id] = @ + 1]
         /\ local' = [local EXCEPT ![id] = o.notify]

FetchEndWith(id, got, r, o) ==
    /\ polled' = Some([id |-> id, cycle |-> cycle, got |-> got, outcome |-> r])
    /\ snapshot' = [snapshot EXCEPT ![id] = IF r.err = NoErr THEN got.cg ELSE @]
    /\ fingerprint' = [fingerprint EXCEPT ![id] = o.fingerprint]
    /\ entry' = [entry EXCEPT ![id] = o.entry]
    /\ Callback(id, o)
    /\ inflight' = [inflight EXCEPT ![id] = @ - 1]
    /\ queue' = Tail(queue)
    /\ trackPc' = IF Tail(queue) = <<>> THEN "idle" ELSE "next"

FetchEndOf(id, got, r) == FetchEndWith(id, got, r, pollOutcome(fingerprint[id], r))

FetchEndGot(id, got) == FetchEndOf(id, got, FetchPodStatus(got))

\* the fetch returns and the tracker deals with what it returned
FetchEnd(fails) ==
    /\ trackPc = "fetch"
    /\ queue # <<>>
    /\ FetchEndGot(Head(queue), GetContainerGroupInfo(backend, Head(queue), fails))
    /\ UNCHANGED <<tracker, cycle, backend, deleted, getPodPc, gotPod>>
    /\ UNCHANGED <<p, createVars, otherVars, listVars, execVars>>

\* the loop ends once the context is cancelled, between two fetches
Stop ==
    /\ trackPc \in {"idle", "next"}
    /\ ctxDone
    /\ trackPc' = "stopped"
    /\ queue' = <<>>
    /\ UNCHANGED <<tracker, entry, fingerprint, cycle, calls, inflight, polled, snapshot, notified, local,
                   backend, deleted, getPodPc, gotPod>>
    /\ UNCHANGED <<p, createVars, otherVars, listVars, execVars>>

(* The container groups the backend can hold, and how they come and go *)

Container(name, state, startTime, exitCode) ==
    [name |-> name, state |-> state, startTime |-> startTime, exitCode |-> exitCode,
     detail |-> IF state = "Terminated" THEN "Completed" ELSE "",
     finishTime |-> IF state = "Terminated" THEN "t9" ELSE ""]

Containers_running == <<Container("c1", "Running", "t1", 0), Container("c2", "Running", "t2", 0)>>
Containers_mixed == <<Container("c1", "Terminated", "t1", 1), Container("c2", "Running", "t2", 0)>>
Containers_waiting == <<Container("c1", "Waiting", "", 0), Container("c2", "Waiting", "", 0)>>

TrackedGroup(k, containers, convertible, valid) ==
    [name |-> "default-" \o PodNames[k], namespace |-> "default", podName |-> PodNames[k],
     tags |-> [NodeName |-> Pointer(TagAddresses[k], "vk")],
     convertible |-> convertible, valid |-> valid, containers |-> containers]

\* the first pod has every kind of group, the second a running one
TrackedGroups(k) ==
    IF k = 1
    THEN {TrackedGroup(k, cs, TRUE, TRUE) : cs \in {Containers_running, Containers_mixed}}
         \cup {TrackedGroup(k, Containers_running, TRUE, FALSE),
               TrackedGroup(k, Containers_waiting, FALSE, TRUE)}
    ELSE {TrackedGroup(k, Containers_running, TRUE, TRUE)}

IndexOf(id) == CHOOSE k \in DOMAIN Identifiers : Identifiers[k] = id

\* the backend creates, changes or loses a group
BackendChanges(id, g) ==
    /\ backend[id] # g
    /\ backend' = [backend EXCEPT ![id] = g]
    /\ UNCHANGED <<tracker, trackPc, queue, entry, fingerprint, cycle, calls, inflight, polled, snapshot,
                   notified, local, deleted, getPodPc, gotPod>>
    /\ UNCHANGED <<p, createVars, otherVars, listVars, execVars>>

\* the statuses the orchestrator holds when the provider starts: none for a
\* pod it does not have, no container yet for a new pod, running containers
\* for a pod that ran before the provider was started
PendingStatus == [containerStatuses |-> <<>>]
RunningStatus(k) ==
    Get(getPodStatusFromContainerGroup(TrackedGroup(k, Containers_running, TRUE, TRUE)).status)
LocalStatuses(id) ==
    IF IndexOf(id) = 1 THEN {Some(PendingStatus), Some(RunningStatus(1))}
    ELSE {None, Some(PendingStatus)}

TrackInit ==
    /\ p = ListProvider
    /\ pod = None
    /\ err = NoErr
    /\ submitted = None
    /\ createCalls = 0
    /\ NoListing
    /\ NoExec
    /\ NoOthers
    /\ tracker = None
    /\ trackPc = ""
    /\ queue = <<>>
    /\ entry = [id \in Ids |-> "Unknown"]
    /\ fingerprint = [id \in Ids |-> None]
    /\ cycle = 0
    /\ calls = [id \in Ids |-> 0]
    /\ inflight = [id \in Ids |-> 0]
    /\ polled = None
    /\ snapshot = [id \in Ids |-> None]
    /\ notified = [id \in Ids |-> [count |-> 0, status |-> None]]
    /\ local \in {l \in [Ids -> UNION {LocalStatuses(id) : id \in Ids}] :
                     \A id \in Ids : l[id] \in LocalStatuses(id)}
    /\ backend = [id \in Ids |-> None]
    /\ deleted = None
    /\ getPodPc = None
    /\ gotPod = None

DeleteErrs == {NoErr, Errorf("delete failed")}

BackendGroups(id) == {None} \cup {Some(tg) : tg \in TrackedGroups(IndexOf(id))}

TrackNext ==
    \/ NotifyPods
    \/ StartCycle
    \/ FetchStart
    \/ \E fails \in BOOLEAN : FetchEnd(fails)
    \/ \E id \in Ids, backendErr \in DeleteErrs, fails \in BOOLEAN : DeletePod(id, backendErr, fails)
    \/ \E id \in Ids : \E g \in BackendGroups(id) : BackendChanges(id, g)

TrackSpec == TrackInit /\ [][TrackNext]_vars

\* the same loop with the cancellation of its context and a GetPod call, the
\* backend holding a running group or none
RunningGroups(id) ==
    {None, Some(TrackedGroup(IndexOf(id), Containers_running, TRUE, TRUE))}

CancelNext ==
    \/ NotifyPods
    \/ StartCycle
    \/ FetchStart
    \/ \E fails \in BOOLEAN : FetchEnd(fails)
    \/ Stop
    \/ CancelContext
    \/ \E id \in Ids : GetPodCall(id)
    \/ \E fails \in BOOLEAN : GetPodReturn(fails)
    \/ \E id \in Ids : \E g \in RunningGroups(id) : BackendChanges(id, g)

\* the tracker's loop and a GetPod call in flight go on whenever they can; the
\* orchestrator, the backend and the owner of the context owe nothing
CancelFairness ==
    /\ WF_vars(FetchStart)
    /\ WF_vars(\E fails \in BOOLEAN : FetchEnd(fails))
    /\ WF_vars(Stop)
    /\ WF_vars(\E fails \in BOOLEAN : GetPodReturn(fails))

CancelSpec == TrackInit /\ [][CancelNext]_vars /\ CancelFairness

----------------------------------------------------------------------------
(* Properties of DeletePod *)

\* the step of a DeletePod call, and the call
DeleteStep == deleted = None /\ deleted' # None
TheDelete == Get(deleted')

IsRunning(cs) == cs.state.running # None

\* the container status after is the one before, terminated as a deleted
\* pod's: exit code 0, reason "NotFound", start time kept
TerminatedAsDeleted(before, after) ==
    /\ after.name = before.name
    /\ after.containerID = before.containerID
    /\ after.state.running = None
    /\ after.state.terminated # None
    /\ Get(after.state.terminated).exitCode = 0
    /\ Get(after.state.terminated).reason = "NotFound"
    /\ Get(after.state.terminated).startedAt = Get(before.state.running).startedAt

\* exactly the running containers of the status are terminated
RunningTerminated(before, after) ==
    /\ Len(after.containerStatuses) = Len(before.containerStatuses)
    /\ \A i \in DOMAIN before.containerStatuses :
           IF IsRunning(before.containerStatuses[i])
           THEN TerminatedAsDeleted(before.containerStatuses[i], after.containerStatuses[i])
           ELSE after.containerStatuses[i] = before.containerStatuses[i]

\* what DeletePod leaves alone whatever happens: the statuses of the other
\* pods and the tracker's entries and fingerprints
DeleteFrame ==
    /\ \A id \in Ids \ {TheDelete.id} : local'[id] = local[id]
    /\ entry' = entry
    /\ fingerprint' = fingerprint

\* C17: if the backend's delete call fails DeletePod returns the error and no
\* container status changes; if it succeeds, exactly the containers of the
\* locally held status that were running become terminated (exit code 0,
\* reason "NotFound", start time kept), the other containers are unchanged,
\* the identifier stays in the tracker's set, and DeletePod returns success
\* even when the status update fails.
C17_DeletePodTerminatesRunning ==
    [][DeleteStep =>
          IF TheDelete.backendErr # NoErr
          THEN /\ TheDelete.err = TheDelete.backendErr
               /\ local' = local
               /\ entry' = entry
          ELSE /\ TheDelete.err = NoErr
               /\ DeleteFrame
               /\ IF TheDelete.updateErr # NoErr \/ local[TheDelete.id] = None
                  THEN local' = local
                  ELSE /\ local'[TheDelete.id] # None
                       /\ RunningTerminated(Get(local[TheDelete.id]),
                                            Get(local'[TheDelete.id]))]_vars

\* C17 (amended): the same, the running containers being terminated when
\* NotifyPods has set the tracker; with no tracker a successful delete changes
\* no status.
C17_DeletePodTerminatesRunningWhenTracking ==
    [][DeleteStep =>
          IF TheDelete.backendErr # NoErr
          THEN /\ TheDelete.err = TheDelete.backendErr
               /\ local' = local
               /\ entry' = entry
          ELSE /\ TheDelete.err = NoErr
               /\ DeleteFrame
               /\ IF TheDelete.updateErr # NoErr \/ tracker = None
                  THEN local' = local
                  ELSE /\ local'[TheDelete.id] # None
                       /\ RunningTerminated(Get(local[TheDelete.id]),
                                            Get(local'[TheDelete.id]))]_vars

\* a delete went through for a tracked pod held with one running and one
\* terminated container: the running one is terminated with reason NotFound
C17_Witness ==
    /\ deleted # None
    /\ Get(deleted).backendErr = NoErr
    /\ Get(deleted).updateErr = NoErr
    /\ tracker # None
    /\ entry[Get(deleted).id] = "Tracked"
    /\ local[Get(deleted).id] # None
    /\ Len(Get(local[Get(deleted).id]).containerStatuses) = 2
    /\ \A i \in 1..2 : Get(local[Get(deleted).id]).containerStatuses[i].state.terminated # None
    /\ Get(Get(local[Get(deleted).id]).containerStatuses[1].state.terminated).reason = "Completed"
    /\ Get(Get(local[Get(deleted).id]).containerStatuses[2].state.terminated).reason = "NotFound"

----------------------------------------------------------------------------
(* Properties of the tracker *)

\* the step in which the tracker deals with a fetch, and that fetch
PollStep == polled' # polled
ThePoll == Get(polled')
PollNotFound == IsNotFound(ThePoll.got.err)
\* the fetch failed otherwise: the call failed, or the group it gave does not
\* validate or does not translate
PollFailed ==
    \/ ThePoll.got.err # NoErr /\ ~IsNotFound(ThePoll.got.err)
    \/ ThePoll.got.err = NoErr /\ ~Get(ThePoll.got.cg).valid
    \/ ThePoll.got.err = NoErr /\ ~Get(ThePoll.got.cg).convertible
PollStatus == ThePoll.outcome.status

ShowsRunning(fp) ==
    fp # None /\ \E i \in DOMAIN Get(fp).containerStatuses :
                     IsRunning(Get(fp).containerStatuses[i])

NotifiedOnce(id) == notified'[id].count = notified[id].count + 1
NotNotified(id) == notified'[id] = notified[id]

\* C12: when the fetch for a tracked identifier returns NotFound while its
\* last known status showed a running container, the callback is invoked
\* exactly once for it, with the running containers terminated (exit code 0,
\* reason "NotFound"), and the identifier leaves the tracked set, after which
\* no cycle notifies for it again.
C12_GoneGroupNotifiedOnce ==
    [][/\ PollStep /\ PollNotFound /\ ShowsRunning(fingerprint[ThePoll.id]) =>
              /\ NotifiedOnce(ThePoll.id)
              /\ notified'[ThePoll.id].status # None
              /\ RunningTerminated(Get(fingerprint[ThePoll.id]),
                                   Get(notified'[ThePoll.id].status))
              /\ entry'[ThePoll.id] = "untracked"
       /\ \A id \in Ids :
              entry[id] = "untracked" => entry'[id] = "untracked" /\ NotNotified(id)]_vars

\* the first pod was notified running, then gone, and a later cycle has
\* polled the second pod without a word on the first
C12_Witness ==
    /\ entry["pod-1"] = "untracked"
    /\ notified["pod-1"].count = 2
    /\ \E i \in DOMAIN Get(notified["pod-1"].status).containerStatuses :
           /\ Get(notified["pod-1"].status).containerStatuses[i].state.terminated # None
           /\ Get(Get(notified["pod-1"].status).containerStatuses[i].state.terminated).reason
                  = "NotFound"
    /\ cycle = 3
    /\ polled # None
    /\ Get(polled).cycle = 3
    /\ Get(polled).id = "pod-2"

RECURSIVE SumOver(_, _)
SumOver(f, S) ==
    IF S = {} THEN 0
    ELSE LET x == CHOOSE y \in S : TRUE IN f[x] + SumOver(f, S \ {x})

OneFetchAtATime == SumOver(inflight, Ids) <= 1 /\ \A id \in Ids : calls[id] <= 1

C15_FailedFetchChangesNothing ==
    [][/\ PollStep /\ PollFailed =>
              /\ NotNotified(ThePoll.id)
              /\ fingerprint'[ThePoll.id] = fingerprint[ThePoll.id]
              /\ entry'[ThePoll.id] = "Tracked"
       /\ cycle' = cycle + 1 =>
              \A id \in Ids : entry[id] = "Tracked" => id \in Range(queue')]_vars

\* the fetch of the first pod, notified once before, gave a group that does
\* not validate, in a cycle after the first: nothing was notified
C15_Witness ==
    /\ polled # None
    /\ Get(polled).id = "pod-1"
    /\ Get(polled).cycle = 3
    /\ Get(polled).got.err = NoErr
    /\ ~Get(Get(polled).got.cg).valid
    /\ Get(polled).outcome.err # NoErr
    /\ notified["pod-1"].count = 1
    /\ entry["pod-1"] = "Tracked"
    /\ fingerprint["pod-1"] = notified["pod-1"].status

----------------------------------------------------------------------------
(* Properties of the tracker under cancellation *)

TrackerStopped == trackPc \in {"", "stopped"}

\* GetPod returned what the backend's answer makes of it: the error of the
\* call, or the pod of the group it gave
ReturnedItsResult(r) ==
    IF r.got.err # NoErr THEN r.pod = None /\ r.err = r.got.err
    ELSE r.err = NoErr /\ r.pod = Some([namespace |-> "default", name |-> r.id])

\* C16: once the governing context is cancelled, at any point of a cycle, the
\* tracker starts no new cycle and eventually stops; a GetPod call in flight
\* eventually returns, with its result, cancellation or not.
C16_CancellationStopsTracker ==
    /\ [][ctxDone => cycle' = cycle]_vars
    /\ ctxDone ~> TrackerStopped
    /\ (getPodPc # None) ~> (getPodPc = None /\ gotPod # None)
    /\ [][gotPod' # gotPod => ReturnedItsResult(Get(gotPod'))]_vars

\* the context was cancelled in the middle of the first cycle: the tracker
\* stopped after the first pod, the second still to poll, and the GetPod call
\* returned a pod
C16_Witness ==
    /\ ctxDone
    /\ trackPc = "stopped"
    /\ cycle = 1
    /\ polled # None
    /\ Get(polled).id = "pod-1"
    /\ entry["pod-2"] = "Tracked"
    /\ gotPod # None
    /\ Get(gotPod).pod # None

----------------------------------------------------------------------------
(* Model of NewACIProvider *)

validAciRegions == <<
    <<"a","u","s","t","r","a","l","i","a","e","a","s","t">>,
    <<"a","u","s","t","r","a","l","i","a","s","o","u","t","h","e","a","s","t">>,
    <<"b","r","a","z","i","l","s","o","u","t","h">>,
    <<"c","a","n","a","d","a","c","e","n","t","r","a","l">>,
    <<"c","a","n","a","d","a","e","a","s","t">>,
    <<"c","e","n","t","r","a","l","i","n","d","i","a">>,
    <<"c","e","n","t","r","a","l","u","s">>,
    <<"c","e","n","t","r","a","l","u","s","e","u","a","p">>,
    <<"e","a","s","t","a","s","i","a">>,
    <<"e","a","s","t","u","s">>,
    <<"e","a","s","t","u","s","2">>,
    <<"e","a","s","t","u","s","2","e","u","a","p">>,
    <<"f","r","a","n","c","e","c","e","n","t","r","a","l">>,
    <<"g","e","r","m","a","n","y","w","e","s","t","c","e","n","t","r","a","l">>,
    <<"j","a","p","a","n","e","a","s","t">>,
    <<"j","a","p","a","n","w","e","s","t">>,
    <<"j","i","o","i","n","d","i","a","w","e","s","t">>,
    <<"k","o","r","e","a","c","e","n","t","r","a","l">>,
    <<"n","o","r","t","h","c","e","n","t","r","a","l","u","s">>,
    <<"n","o","r","t","h","e","u","r","o","p","e">>,
    <<"n","o","r","w","a","y","e","a","s","t">>,
    <<"n","o","r","w","a","y","w","e","s","t">>,
    <<"s","o","u","t","h","a","f","r","i","c","a","n","o","r","t","h">>,
    <<"s","o","u","t","h","c","e","n","t","r","a","l","u","s">>,
    <<"s","o","u","t","h","i","n","d","i","a">>,
    <<"s","o","u","t","h","e","a","s","t","a","s","i","a">>,
    <<"s","w","e","d","e","n","c","e","n","t","r","a","l">>,
    <<"s","w","e","d","e","n","s","o","u","t","h">>,
    <<"s","w","i","t","z","e","r","l","a","n","d","n","o","r","t","h">>,
    <<"s","w","i","t","z","e","r","l","a","n","d","w","e","s","t">>,
    <<"u","a","e","n","o","r","t","h">>,
    <<"u","k","s","o","u","t","h">>,
    <<"u","k","w","e","s","t">>,
    <<"w","e","s","t","c","e","n","t","r","a","l","u","s">>,
    <<"w","e","s","t","e","u","r","o","p","e">>,
    <<"w","e","s","t","i","n","d","i","a">>,
    <<"w","e","s","t","u","s">>,
    <<"w","e","s","t","u","s","2">>,
    <<"w","e","s","t","u","s","3">>,
    <<"u","s","g","o","v","v","i","r","g","i","n","i","a">>,
    <<"u","s","g","o","v","a","r","i","z","o","n","a">> >>

ToLower(s) == [i \in DOMAIN s |-> FoldChar(s[i])]
NotSpace(ch) == ch # " "
\* strings.Replace(s, " ", "", -1)
RemoveSpaces(s) == SelectSeq(s, NotSpace)

\* a check that lets every region pass
isValidACIRegionAny(region) == TRUE

isValidACIRegion(region) ==
    LET regionLower == ToLower(region)
        regionTrimmed == RemoveSpaces(regionLower)
    IN  \E i \in DOMAIN validAciRegions : regionTrimmed = validAciRegions[i]

\* var p ACIProvider
ZeroProvider == [resourceGroup |-> "", region |-> <<>>, vnetResourceGroup |-> ""]

\* os.Open(config) and p.loadConfig(f): config is None for "", else what opening
\* and loading the file give; loadConfig is declared outside aci.go and is
\* taken to set the resource group and the region the file names
loadConfig(prov, config) ==
    IF config = None THEN [p |-> prov, err |-> NoErr]
    ELSE IF ~Get(config).opens
         THEN [p |-> prov, err |-> Errorf("open: no such file or directory")]
    ELSE IF ~Get(config).loads
         THEN [p |-> prov, err |-> Errorf("the configuration does not load")]
    ELSE [p |-> [prov EXCEPT !.resourceGroup = Get(config).resourceGroup,
                             !.region = Get(config).region],
          err |-> NoErr]

\* lines 193-203
withAKSCredential(prov, azConfig) ==
    LET p1 == IF azConfig.AKSCredential # None
              THEN [prov EXCEPT !.resourceGroup = Get(azConfig.AKSCredential).ResourceGroup,
                                !.region = Get(azConfig.AKSCredential).Region,
                                !.vnetResourceGroup = Get(azConfig.AKSCredential).VNetResourceGroup]
              ELSE prov
    IN  IF p1.vnetResourceGroup = ""
        THEN [p1 EXCEPT !.vnetResourceGroup = p1.resourceGroup]
        ELSE p1

\* lines 233-235 and 240-242
withEnv(prov, env) ==
    [prov EXCEPT !.resourceGroup = IF env.ACI_RESOURCE_GROUP # "" THEN env.ACI_RESOURCE_GROUP ELSE @,
                 !.region = IF env.ACI_REGION # <<>> THEN env.ACI_REGION ELSE @]

\* lines 236-262, for the provider with its resource group and region set; fails
\* names the later call that fails, if any: "setupNodeCapacity", "setVNETConfig"
checked(prov, fails) ==
    IF prov.resourceGroup = ""
    THEN [provider |-> None,
          err |-> Errorf("Resource group can not be empty please set ACI_RESOURCE_GROUP")]
    ELSE IF prov.region = <<>>
    THEN [provider |-> None,
          err |-> Errorf("Region can not be empty please set ACI_REGION")]
    ELSE IF ~isValidACIRegion(prov.region)
    THEN [provider |-> None, err |-> Errorf("Region is invalid")]
    ELSE IF fails \in {"setupNodeCapacity", "setVNETConfig"}
    THEN [provider |-> None, err |-> Errorf(fails)]
    ELSE [provider |-> Some(prov), err |-> NoErr]

\* fails = "diagnostics": one of the analytics constructors fails (206-221)
newACIProvider(config, azConfig, env, fails) ==
    LET loaded == loadConfig(ZeroProvider, config)
    IN  IF loaded.err # NoErr THEN [provider |-> None, err |-> loaded.err]
        ELSE IF fails = "diagnostics"
        THEN [provider |-> None, err |-> Errorf("diagnostics")]
        ELSE checked(withEnv(withAKSCredential(loaded.p, azConfig), env), fails)

NewACIProviderReturns(config, azConfig, env, fails, r) ==
    started' = Some([config |-> config, azConfig |-> azConfig, env |-> env,
                     fails |-> fails, provider |-> r.provider, err |-> r.err])

NewACIProvider(config, azConfig, env, fails) ==
    /\ started = None
    /\ NewACIProviderReturns(config, azConfig, env, fails,
                             newACIProvider(config, azConfig, env, fails))
    /\ UNCHANGED <<p, createVars, listVars, execVars, trackVars, diagVars, nameVars, cacheVars>>

\* the process ends; it can be started again
Exit ==
    /\ started # None
    /\ started' = None
    /\ UNCHANGED <<p, createVars, listVars, execVars, trackVars, diagVars, nameVars, cacheVars>>

(* The configurations NewACIProvider is started with *)

Region_westus == <<"w","e","s","t","u","s">>
Region_WestUS == <<"W","e","s","t"," ","U","S">>
Region_EASTUS2 == <<"E","A","S","T","U","S","2">>
Region_mars == <<"m","a","r","s">>
Region_dashed == <<"w","e","s","t","-","u","s">>
Region_blank == <<" ">>
Regions == {<<>>, Region_westus, Region_WestUS, Region_EASTUS2, Region_mars,
            Region_dashed, Region_blank}
ResourceGroups == {"", "rg-1"}

Configs ==
    {None, Some([opens |-> FALSE, loads |-> FALSE, resourceGroup |-> "", region |-> <<>>]),
           Some([opens |-> TRUE, loads |-> FALSE, resourceGroup |-> "", region |-> <<>>])}
    \cup {Some([opens |-> TRUE, loads |-> TRUE, resourceGroup |-> rg, region |-> r]) :
            rg \in {"", "rg-file"}, r \in {<<>>, Region_westus, Region_mars}}

AzConfigs ==
    {[AKSCredential |-> None]}
    \cup {[AKSCredential |-> Some([ResourceGroup |-> rg, Region |-> r, VNetResourceGroup |-> ""])] :
            rg \in {"", "rg-aks"}, r \in {<<>>, Region_EASTUS2, Region_mars}}

Envs == [ACI_RESOURCE_GROUP : ResourceGroups, ACI_REGION : Regions]

StartFailures == {"", "diagnostics", "setupNodeCapacity", "setVNETConfig"}

StartInit ==
    /\ p \in {Provider(OS_Linux, "", <<SKU_P100>>, None)}
    /\ pod = None
    /\ err = NoErr
    /\ submitted = None
    /\ createCalls = 0
    /\ NoListing
    /\ NoExec
    /\ NoTracking
    /\ NoOthers

StartNext ==
    \/ \E config \in Configs, azConfig \in AzConfigs, env \in Envs, fails \in StartFailures :
           NewACIProvider(config, azConfig, env, fails)
    \/ Exit

StartSpec == StartInit /\ [][StartNext]_vars

----------------------------------------------------------------------------
(* Properties of NewACIProvider *)

StartupDone == started # None
TheStart == Get(started)

\* the resource group and the region in effect: the environment goes before
\* the AKS credential, which goes before the configuration file
FromFile(field, zero) ==
    IF TheStart.config # None /\ Get(TheStart.config).opens /\ Get(TheStart.config).loads
    THEN Get(TheStart.config)[field] ELSE zero
EffectiveResourceGroup ==
    IF TheStart.env.ACI_RESOURCE_GROUP # "" THEN TheStart.env.ACI_RESOURCE_GROUP
    ELSE IF TheStart.azConfig.AKSCredential # None
    THEN Get(TheStart.azConfig.AKSCredential).ResourceGroup
    ELSE FromFile("resourceGroup", "")
EffectiveRegion ==
    IF TheStart.env.ACI_REGION # <<>> THEN TheStart.env.ACI_REGION
    ELSE IF TheStart.azConfig.AKSCredential # None
    THEN Get(TheStart.azConfig.AKSCredential).Region
    ELSE FromFile("region", <<>>)

InAllowlist(r) == r \in Range(validAciRegions)
\* the region names an entry of the allowlist when case and spaces are ignored
NamesAllowed(r) ==
    \E v \in Range(validAciRegions) :
        /\ Len(RemoveSpaces(r)) = Len(v)
        /\ \A i \in 1..Len(v) : FoldChar(RemoveSpaces(r)[i]) = v[i]

Refused == TheStart.provider = None /\ TheStart.err # NoErr
Returned == TheStart.provider # None /\ TheStart.err = NoErr

\* C21 as stated: NewACIProvider returns an error and no provider whenever the
\* effective resource group is empty, the effective region is empty or the
\* effective region is not in the allowlist; a provider is returned only when
\* the resource group is non-empty and the region is in the allowlist, and it
\* is the provider of that resource group and region.
C21_StartupGate ==
    StartupDone =>
        /\ Refused \/ Returned
        /\ (EffectiveResourceGroup = "" \/ EffectiveRegion = <<>>
              \/ ~InAllowlist(EffectiveRegion)) => Refused
        /\ Returned =>
              /\ EffectiveResourceGroup # "" /\ InAllowlist(EffectiveRegion)
              /\ Get(TheStart.provider).resourceGroup = EffectiveResourceGroup
              /\ Get(TheStart.provider).region = EffectiveRegion

\* C21, amended: the same, with the region compared with the allowlist after
\* lower-casing it and removing its spaces; the provider keeps the region as
\* it was configured.
C21_StartupGateNormalized ==
    StartupDone =>
        /\ Refused \/ Returned
        /\ (EffectiveResourceGroup = "" \/ EffectiveRegion = <<>>
              \/ ~NamesAllowed(EffectiveRegion)) => Refused
        /\ Returned =>
              /\ EffectiveResourceGroup # "" /\ NamesAllowed(EffectiveRegion)
              /\ Get(TheStart.provider).resourceGroup = EffectiveResourceGroup
              /\ Get(TheStart.provider).region = EffectiveRegion

\* a provider is returned for a region that is written otherwise than its entry
\* of the allowlist
C21_Witness ==
    /\ StartupDone
    /\ Returned
    /\ ~InAllowlist(EffectiveRegion)
    /\ NamesAllowed(EffectiveRegion)

----------------------------------------------------------------------------
(* Model of concurrent CreatePod calls: the diagnostics of the request *)

\* CreatePod up to line 318: the request of call k gets what getDiagnostics
\* returns. That is p.diagnostics itself, or the address of a copy d of
\* *p.diagnostics whose LogAnalytics field is the same pointer as the
\* provider's: either way the request reads the provider's LogAnalytics, and
\* getDiagnostics has written the pod's UID into its Metadata map
CreatePodGetDiagnostics(k, pd) ==
    /\ creating[k].pc = ""
    /\ p' = [p EXCEPT !.diagnostics = getDiagnostics(p, pd).provider]
    /\ creating' = [creating EXCEPT ![k] = [pc |-> "built", pod |-> Some(pd), sent |-> None]]
    /\ UNCHANGED <<createVars, listVars, execVars, trackVars, startVars, nameVars, cacheVars>>

\* line 363: CreateContainerGroup serializes the request of call k; its
\* diagnostics are what the shared LogAnalytics holds by now
CreatePodCreateContainerGroup(k) ==
    /\ creating[k].pc = "built"
    /\ creating' = [creating EXCEPT ![k].pc = "sent", ![k].sent = Some(p.diagnostics)]
    /\ UNCHANGED <<p, createVars, listVars, execVars, trackVars, startVars, nameVars, cacheVars>>

\* call k returns; the goroutine can make another call
CreatePodDone(k) ==
    /\ creating[k].pc = "sent"
    /\ creating' = [creating EXCEPT ![k] = [pc |-> "", pod |-> None, sent |-> None]]
    /\ UNCHANGED <<p, createVars, listVars, execVars, trackVars, startVars, nameVars, cacheVars>>

UIDs == {"uid-1", "uid-2", "uid-3"}
DiagPods == {[BasePod EXCEPT !.uid = u] : u \in UIDs}

LogAnalyticsOnly ==
    Some([logAnalytics |->
        Some([logType  |-> "",
              metadata |-> ("node-name" :> "vk")])])

DiagInit ==
    /\ p \in {Provider(OS_Linux, "", <<SKU_P100>>, diag) :
                 diag \in {None, ContainerInsights, LogAnalyticsOnly}}
    /\ pod = None
    /\ err = NoErr
    /\ submitted = None
    /\ createCalls = 0
    /\ NoListing
    /\ NoExec
    /\ NoTracking
    /\ NoOthers

DiagNext ==
    \/ \E k \in Calls, pd \in DiagPods : CreatePodGetDiagnostics(k, pd)
    \/ \E k \in Calls : CreatePodCreateContainerGroup(k)
    \/ \E k \in Calls : CreatePodDone(k)

DiagSpec == DiagInit /\ [][DiagNext]_vars

----------------------------------------------------------------------------
(* Properties of concurrent CreatePod calls *)

HasContainerInsights(d) ==
    /\ d # None
    /\ Get(d).logAnalytics # None
    /\ Get(Get(d).logAnalytics).logType = LogAnalyticsLogTypeContainerInsights

PodUIDOf(d) == Get(Get(d).logAnalytics).metadata[LogAnalyticsMetadataKeyPodUUID]

\* the request of every call that has reached the backend carries the UID of
\* the call's own pod
SentOwnUID ==
    \A k \in Calls :
        (creating[k].sent # None /\ HasContainerInsights(Get(creating[k].sent)))
            => /\ LogAnalyticsMetadataKeyPodUUID
                      \in DOMAIN Get(Get(Get(creating[k].sent)).logAnalytics).metadata
               /\ PodUIDOf(Get(creating[k].sent)) = Get(creating[k].pod).uid

\* C23: no step of a CreatePod call changes the provider's diagnostics
\* configuration, and under every interleaving of concurrent CreatePod calls
\* the pod-UID metadata of the diagnostics a call sends with its request is
\* the UID of the call's own pod.
C23_DiagnosticsNotShared ==
    /\ [][p'.diagnostics = p.diagnostics]_vars
    /\ []SentOwnUID

----------------------------------------------------------------------------
(* Model of the container group names: containerGroupName, deleteContainerGroup *)

\* fmt.Sprintf("%s-%s", podNS, podName), on strings as sequences of characters
containerGroupName(podNS, podName) == podNS \o <<"-">> \o podName

\* the client's CreateContainerGroup gets the namespace and the name and
\* is declared outside aci.go: it is taken to put the group under the group key
\* "{namespace}-{name}", replacing a group that has this name
CreateContainerGroup(held, podNS, podName) ==
    LET cgName == containerGroupName(podNS, podName)
    IN  [n \in DOMAIN held \cup {cgName} |->
            IF n = cgName THEN <<podNS, podName>> ELSE held[n]]

\* the backend's DeleteContainerGroup: removes the group of that name
DeleteContainerGroup(held, cgName) ==
    [n \in DOMAIN held \ {cgName} |-> held[n]]

\* deleteContainerGroup, lines 396-407, as DeletePod and CleanupPod call it
deleteContainerGroup(held, podNS, podName) ==
    LET cgName == containerGroupName(podNS, podName)
    IN  IF cgName \in DOMAIN held
        THEN [groups |-> DeleteContainerGroup(held, cgName),
              removed |-> Some(held[cgName]), err |-> NoErr]
        ELSE [groups |-> held, removed |-> None,
              err |-> NotFound("the container group is not found")]

CreateGroup(podNS, podName) ==
    /\ groups' = CreateContainerGroup(groups, podNS, podName)
    /\ removed' = None
    /\ UNCHANGED <<p, createVars, listVars, execVars, trackVars, startVars, diagVars, cacheVars>>

DeleteGroupReturns(podNS, podName, r) ==
    /\ groups' = r.groups
    /\ removed' = Some([id |-> <<podNS, podName>>, owner |-> r.removed, err |-> r.err])

\* DeletePod of the pod, or CleanupPod of the identifier
DeleteGroup(podNS, podName) ==
    /\ DeleteGroupReturns(podNS, podName, deleteContainerGroup(groups, podNS, podName))
    /\ UNCHANGED <<p, createVars, listVars, execVars, trackVars, startVars, diagVars, cacheVars>>

\* namespaces are DNS labels and pod names DNS subdomains: both may hold "-"
Namespaces == {<<"a">>, <<"a","-","b">>}
Names == {<<"c">>, <<"b","-","c">>, <<"b">>}

NameInit ==
    /\ p \in {Provider(OS_Linux, "", <<SKU_P100>>, None)}
    /\ pod = None
    /\ err = NoErr
    /\ submitted = None
    /\ createCalls = 0
    /\ NoListing
    /\ NoExec
    /\ NoTracking
    /\ NoOthers

NameNext ==
    \/ \E podNS \in Namespaces, podName \in Names : CreateGroup(podNS, podName)
    \/ \E podNS \in Namespaces, podName \in Names : DeleteGroup(podNS, podName)

NameSpec == NameInit /\ [][NameNext]_vars

----------------------------------------------------------------------------
(* Properties of the container group names *)

IdentifiersOfGroups == Namespaces \X Names

\* C24: the group name of an identifier is its namespace, "-", its name; no
\* identifier has the group name of a group that was created for another
\* identifier; and a delete or cleanup of one identifier never removes the
\* container group that was created for another.
C24_GroupKeyIdentifiesUnit ==
    /\ \A id \in IdentifiersOfGroups :
           LET key == containerGroupName(id[1], id[2])
           IN  /\ Len(key) = Len(id[1]) + 1 + Len(id[2])
               /\ SubSeq(key, 1, Len(id[1])) = id[1]
               /\ key[Len(id[1]) + 1] = "-"
               /\ SubSeq(key, Len(id[1]) + 2, Len(key)) = id[2]
    /\ \A n \in DOMAIN groups : \A id \in IdentifiersOfGroups :
           id # groups[n] => containerGroupName(id[1], id[2]) # n
    /\ (removed # None /\ Get(removed).owner # None)
           => Get(Get(removed).owner) = Get(removed).id

\* the last conjunct alone: what a delete removes
C24_DeleteRemovesOwnGroup ==
    (removed # None /\ Get(removed).owner # None)
        => Get(Get(removed).owner) = Get(removed).id

----------------------------------------------------------------------------
(* Model of the cached pod stats getter: provider/metrics/cache.go *)

\* cache.New of patrickmn/go-cache: a default expiration of 0 is "never"
cacheNew(defaultExpiration) ==
    [defaultExpiration |-> IF defaultExpiration = 0 THEN -1 ELSE defaultExpiration,
     items |-> <<>>]

\* an item with an expiration is expired once the time is past it
Expired(item, t) == item.expiration > 0 /\ t > item.expiration

\* cache.Get
cacheGet(c, k, t) ==
    IF k \in DOMAIN c.items /\ ~Expired(c.items[k], t)
    THEN [object |-> c.items[k].object, found |-> TRUE]
    ELSE [object |-> None, found |-> FALSE]

\* cache.Set(k, x, cache.DefaultExpiration)
cacheSet(c, k, x, t) ==
    LET e == IF c.defaultExpiration > 0 THEN t + c.defaultExpiration ELSE 0
    IN  [c EXCEPT !.items = [n \in DOMAIN c.items \cup {k} |->
                                IF n = k THEN [object |-> x, expiration |-> e]
                                ELSE c.items[n]]]

\* the janitor's DeleteExpired
DeleteExpired(c, t) ==
    [c EXCEPT !.items = [n \in {m \in DOMAIN c.items : ~Expired(c.items[m], t)} |->
                            c.items[n]]]

WrapCachedPodStatsGetter(ttlSeconds) == cacheNew(ttlSeconds)

\* a getter that stores what the wrapped getter returns, error or not
getPodStatsStoresAll(c, t, uid, wrapped) ==
    IF cacheGet(c, uid, t).found
    THEN [cache |-> c, stats |-> cacheGet(c, uid, t).object, err |-> NoErr, invoked |-> FALSE]
    ELSE [cache |-> cacheSet(c, uid, wrapped.stats, t),
          stats |-> wrapped.stats, err |-> wrapped.err, invoked |-> TRUE]

\* cachePodStatsGetter.getPodStats; wrapped is what the wrapped getter returns
\* when it is called
getPodStats(c, t, uid, wrapped) ==
    LET cacheKey == uid
        got == cacheGet(c, cacheKey, t)
    IN  IF got.found
        THEN [cache |-> c, stats |-> got.object, err |-> NoErr, invoked |-> FALSE]
        ELSE IF wrapped.err # NoErr
        THEN [cache |-> c, stats |-> None, err |-> wrapped.err, invoked |-> TRUE]
        ELSE [cache |-> cacheSet(c, cacheKey, wrapped.stats, t),
              stats |-> wrapped.stats, err |-> NoErr, invoked |-> TRUE]

GetPodStatsReturns(uid, wrapped, r) ==
    /\ cache' = r.cache
    /\ statsCall' = Some([uid |-> uid, wrapped |-> wrapped, invoked |-> r.invoked,
                          stats |-> r.stats, err |-> r.err])

GetPodStatsCall(uid, wrapped) ==
    /\ statsCall = None
    /\ GetPodStatsReturns(uid, wrapped, getPodStats(cache, now, uid, wrapped))
    /\ UNCHANGED <<now, p, createVars, listVars, execVars, trackVars, startVars, diagVars, nameVars>>

\* the caller has its result
StatsReturn ==
    /\ statsCall # None
    /\ statsCall' = None
    /\ UNCHANGED <<cache, now, p, createVars, listVars, execVars, trackVars, startVars, diagVars, nameVars>>

\* the janitor of the cache runs
Janitor ==
    /\ statsCall = None
    /\ cache' = DeleteExpired(cache, now)
    /\ cache' # cache
    /\ UNCHANGED <<statsCall, now, p, createVars, listVars, execVars, trackVars, startVars, diagVars, nameVars>>

\* time passes, up to MaxTime seconds
MaxTime == 4
Tick ==
    /\ statsCall = None
    /\ now < MaxTime
    /\ now' = now + 1
    /\ UNCHANGED <<cache, statsCall, p, createVars, listVars, execVars, trackVars, startVars, diagVars, nameVars>>

TTLSeconds == {-1, 0, 1, 2}
StatsUIDs == {"uid-1", "uid-2"}
WrappedResults ==
    {[stats |-> Some("stats-1"), err |-> NoErr],
     [stats |-> Some("stats-2"), err |-> NoErr],
     [stats |-> None, err |-> NoErr],
     [stats |-> None, err |-> Errorf("the stats are not available")]}

CacheInit ==
    /\ p \in {Provider(OS_Linux, "", <<SKU_P100>>, None)}
    /\ pod = None
    /\ err = NoErr
    /\ submitted = None
    /\ createCalls = 0
    /\ NoListing
    /\ NoExec
    /\ NoTracking
    /\ NoStartup
    /\ NoCreating
    /\ NoGroups
    /\ cache \in {WrapCachedPodStatsGetter(ttlSeconds) : ttlSeconds \in TTLSeconds}
    /\ now = 0
    /\ statsCall = None

CacheNext ==
    \/ \E uid \in StatsUIDs, wrapped \in WrappedResults : GetPodStatsCall(uid, wrapped)
    \/ StatsReturn
    \/ Janitor
    \/ Tick

CacheSpec == CacheInit /\ [][CacheNext]_vars

----------------------------------------------------------------------------
(* Properties of the cached pod stats getter *)

StatsStep == statsCall = None /\ statsCall' # None
TheStatsCall == Get(statsCall')

\* an entry for the UID is in the cache and its time has not passed
UnexpiredIn(items, t, uid) ==
    /\ uid \in DOMAIN items
    /\ (items[uid].expiration = 0 \/ t <= items[uid].expiration)
HasUnexpiredEntry(uid) == UnexpiredIn(cache.items, now, uid)

ItemsUnchanged == cache'.items = cache.items

\* C25: a getPodStats call invokes the wrapped getter exactly when the cache
\* holds no unexpired entry for the pod's UID; a hit returns the stored stats
\* and no error and leaves the cache as it is; an error of the wrapped getter
\* is returned with no stats and nothing is stored, so the next call for the
\* UID invokes the wrapped getter again; a success is returned and stored for
\* that UID alone.
C25_CachedStatsGetter ==
    [][StatsStep =>
        /\ TheStatsCall.invoked <=> ~HasUnexpiredEntry(TheStatsCall.uid)
        /\ ~TheStatsCall.invoked =>
              /\ TheStatsCall.stats = cache.items[TheStatsCall.uid].object
              /\ TheStatsCall.err = NoErr
              /\ ItemsUnchanged
        /\ (TheStatsCall.invoked /\ TheStatsCall.wrapped.err # NoErr) =>
              /\ TheStatsCall.stats = None
              /\ TheStatsCall.err = TheStatsCall.wrapped.err
              /\ ItemsUnchanged
              /\ ~UnexpiredIn(cache'.items, now', TheStatsCall.uid)
        /\ (TheStatsCall.invoked /\ TheStatsCall.wrapped.err = NoErr) =>
              /\ TheStatsCall.stats = TheStatsCall.wrapped.stats
              /\ TheStatsCall.err = NoErr
              /\ TheStatsCall.uid \in DOMAIN cache'.items
              /\ cache'.items[TheStatsCall.uid].object = TheStatsCall.wrapped.stats
              /\ \A n \in DOMAIN cache.items \ {TheStatsCall.uid} :
                     n \in DOMAIN cache'.items /\ cache'.items[n] = cache.items[n]
    ]_vars

\* under a TTL of one second, a call later than second 2 has hit an entry
\* that an earlier call stored, and has got its stats
C25_Witness ==
    /\ statsCall # None
    /\ ~Get(statsCall).invoked
    /\ Get(statsCall).stats # None
    /\ now > 2
    /\ cache.defaultExpiration = 1

====
